---- MODULE Spec2Model ----
(***************************************************************************)
(* Verification model of the CFD-FOSSEE Blender addon (Task2_Blender_Addon *)
(* /addon.py): the face matcher, the common-face detector, the contact     *)
(* classifier and the merge executor.                                      *)
(*                                                                         *)
(* Lengths are integers counted in ticks; one tick is FACE_EPSILON (1e-6). *)
(* The code depends on lengths only through comparisons with epsilon, the  *)
(* rounding to 5 decimals (10 ticks) and the area threshold 1e-10 (100     *)
(* square ticks), so a Blender unit is modelled by 2 * HalfSide ticks.     *)
(* A point is a triple <<x, y, z>>; a face is a sequence of points (its    *)
(* vertex loop); Python's 0-based indices are kept, sequences are 1-based. *)
(***************************************************************************)
EXTENDS Integers, Sequences, FiniteSets, TLC

VARIABLES
    f1_verts,       \* mesh_faces_match: first argument
    f2_verts,       \* mesh_faces_match: second argument
    epsilon,        \* the tolerance argument of the call under study
    result,         \* the value the call returned (FALSE until it returns)
    obj_a,          \* find_common_faces: first object
    obj_b,          \* find_common_faces: second object
    common,         \* find_common_faces: the returned list of (i, j)
    objects,        \* merge_meshes_with_common_faces: the objects argument
    ret,            \* merge_meshes_with_common_faces: the returned boolean
    joined,         \* TRUE once the join / weld / dedup steps have run
    classified,     \* TRUE once the contact classifier has been run
    merged,         \* the object left by the join, weld and dedup steps
    last_merge_failure_reason,  \* the module global _last_merge_failure_reason
    weld_drops_doubles,         \* whether remove_doubles itself drops a face
                                \* that welding made a copy of another face
    scanned,        \* TRUE once the pairwise common-face scan has run
    world,          \* which objects the scene of a merge run starts with
    scene,          \* bpy.data.objects: the objects of the scene
    selection,      \* the objects whose select flag is set
    active,         \* context.view_layer.objects.active
    op_result,      \* what the Merge operator returned, "" for a direct call
    report,         \* the message the Merge operator reported
    contact,        \* what _classify_merge_failure_reason returned
    scene_objs,     \* cubes: bpy.data.objects, in the order of creation
    cube_count,     \* cubes: props.cube_count
    grid_spacing,   \* cubes: props.grid_spacing, in hundredths of a unit
    use_collection, \* cubes: props.use_collection
    dist_result,    \* cubes: what the Distribute Cubes operator returned
    dist_entry,     \* cubes: "invoke" or "execute", how it was run last
    calls,          \* cubes: the number of runs of the operator so far
    reason_before,  \* merge: _last_merge_failure_reason when the call began
    heap,           \* tree: the BinaryNode objects made so far
    tree_root,      \* tree: the caller's root, 0 for None
    tree_op,        \* tree: the operation called last
    raised,         \* tree: the exception the last call raised, "" for none
    valid,          \* validation: what validate_tree returned or raised
    order,          \* traversal: the values the traversal yielded, in order
    yaml_str,       \* yaml: the document tree_to_yaml returned
    loaded,         \* yaml: the tree yaml_to_tree returned
    mode,           \* which entry point the run exercises
    pc              \* "call" before the call under study, "done" after it

matchVars == <<f1_verts, f2_verts, result>>
findVars == <<obj_a, obj_b, common, contact>>
mergeVars == <<objects, ret, joined, classified, merged,
               last_merge_failure_reason, weld_drops_doubles,
               scanned, world, scene, selection, active, op_result, report,
               reason_before>>
cubeVars == <<scene_objs, cube_count, grid_spacing, use_collection,
              dist_result, dist_entry, calls>>
treeAuxVars == <<valid, order, yaml_str, loaded>>
treeVars == <<heap, tree_root, tree_op, raised, treeAuxVars>>
vars == <<matchVars, findVars, mergeVars, cubeVars, treeVars, epsilon, mode, pc>>

(* ------------------------------ bounds --------------------------------- *)
MaxVerts == 3       \* longest vertex loop handed to the matcher
MaxEps == 1         \* largest tolerance, in ticks
MaxFaces == 2       \* most polygons of a mesh handed to the detector

Abs(x) == IF x < 0 THEN 0 - x ELSE x

(* The tolerances tried: one negative value, zero, and 1..MaxEps. *)
Epsilons == (0 - 1)..MaxEps

(* Points the matcher's inputs are drawn from: an origin, a copy of it
   drifted by one tick in x, and two points two ticks away in y and in z. *)
MatchPoints == {<<0, 0, 0>>, <<1, 0, 0>>, <<0, 2, 0>>, <<0, 0, 2>>}

Loops(S, n) == UNION {[1..k -> S] : k \in 0..n}

(* ------------------------- mesh_faces_match ---------------------------- *)
(* Mutants of the vertex comparison: the abs() forgotten, and the
   comparison inverted. *)
VertexDiffers_NoAbs(a, b, eps) ==
    \/ a[1] - b[1] > eps
    \/ a[2] - b[2] > eps
    \/ a[3] - b[3] > eps

VertexDiffers_Inverted(a, b, eps) ==
    \/ Abs(a[1] - b[1]) < eps
    \/ Abs(a[2] - b[2]) < eps
    \/ Abs(a[3] - b[3]) < eps

(* addon.py 209-211: the vertex pair fails when some axis differs by more
   than epsilon. *)
VertexDiffers(a, b, eps) ==
    \/ Abs(a[1] - b[1]) > eps
    \/ Abs(a[2] - b[2]) > eps
    \/ Abs(a[3] - b[3]) > eps

(* addon.py 206-213: the inner loop over i for one offset; FALSE at the
   first failing vertex (break), TRUE when every vertex passed. *)
RECURSIVE InnerLoop(_, _, _, _, _)
InnerLoop(f1, f2, offset, i, eps) ==
    LET n == Len(f1) IN
    IF i >= n THEN TRUE
    ELSE IF VertexDiffers(f1[i + 1], f2[((i + offset) % n) + 1], eps) THEN FALSE
    ELSE InnerLoop(f1, f2, offset, i + 1, eps)

(* addon.py 204-216: the loop over offsets; TRUE at the first offset whose
   inner loop passed, FALSE when range(n) is exhausted. *)
RECURSIVE OffsetLoop(_, _, _, _)
OffsetLoop(f1, f2, offset, eps) ==
    IF offset >= Len(f1) THEN FALSE
    ELSE IF InnerLoop(f1, f2, offset, 0, eps) THEN TRUE
    ELSE OffsetLoop(f1, f2, offset + 1, eps)

Reverse(f) == [k \in 1..Len(f) |-> f[Len(f) + 1 - k]]

(* Mutants of the matcher: the length check dropped (the shorter loop is
   compared cyclically), only offset 0 tried, and the reversed winding
   tried as well. *)
mesh_faces_match_NoLenCheck(f1, f2, eps) ==
    IF Len(f1) <= Len(f2) THEN OffsetLoop(f1, f2, 0, eps)
    ELSE OffsetLoop(f2, f1, 0, eps)

mesh_faces_match_Offset0(f1, f2, eps) ==
    IF Len(f1) # Len(f2) THEN FALSE
    ELSE InnerLoop(f1, f2, 0, 0, eps)

mesh_faces_match_BothWindings(f1, f2, eps) ==
    IF Len(f1) # Len(f2) THEN FALSE
    ELSE OffsetLoop(f1, f2, 0, eps) \/ OffsetLoop(f1, Reverse(f2), 0, eps)

(* addon.py 195-216 *)
mesh_faces_match(f1, f2, eps) ==
    IF Len(f1) # Len(f2) THEN FALSE
    ELSE OffsetLoop(f1, f2, 0, eps)

(* ------------------------- find_common_faces --------------------------- *)
(* A scene object: its type, the translation of matrix_world (loc), the
   vertices of obj.data in local coordinates, and the polygons of obj.data
   as loops of 0-based vertex indices. *)
NoObject == [type |-> "EMPTY", loc |-> <<0, 0, 0>>, vertices |-> <<>>, polygons |-> <<>>]

VAdd(p, q) == <<p[1] + q[1], p[2] + q[2], p[3] + q[3]>>
VSub(p, q) == <<p[1] - q[1], p[2] - q[2], p[3] - q[3]>>

(* Mutant: the local coordinates are used, matrix_world is forgotten. *)
get_face_world_verts_Local(obj, face) ==
    [k \in 1..Len(face) |-> obj.vertices[face[k] + 1]]

(* addon.py 219-224: matrix_world @ co for each vertex index of the face. *)
get_face_world_verts(obj, face) ==
    [k \in 1..Len(face) |-> VAdd(obj.loc, obj.vertices[face[k] + 1])]

(* The key of addon.py 244 and 248: tuples compare lexicographically. *)
KeyLE(a, b) ==
    \/ a[1] < b[1]
    \/ a[1] = b[1] /\ a[2] < b[2]
    \/ a[1] = b[1] /\ a[2] = b[2] /\ a[3] <= b[3]

(* sorted(): a stable sort, here by insertion from the left. *)
RECURSIVE InsertSorted(_, _)
InsertSorted(s, v) ==
    IF s = <<>> THEN <<v>>
    ELSE IF KeyLE(s[Len(s)], v) THEN Append(s, v)
    ELSE Append(InsertSorted(SubSeq(s, 1, Len(s) - 1), v), s[Len(s)])

(* Mutant of the sort: the list as it is. *)
sorted_AsGiven(s) == s

RECURSIVE sorted(_)
sorted(s) ==
    IF s = <<>> THEN <<>>
    ELSE InsertSorted(sorted(SubSeq(s, 1, Len(s) - 1)), s[Len(s)])

(* addon.py 246-252: the scan of mesh_b.polygons from index j for one face
   of A; the index of the first polygon that matches (break), -1 if none. *)
RECURSIVE ScanB(_, _, _, _)
ScanB(verts_a_sorted, ob, j, eps) ==
    IF j >= Len(ob.polygons) THEN 0 - 1
    ELSE LET verts_b == get_face_world_verts(ob, ob.polygons[j + 1])
             verts_b_sorted == sorted(verts_b)
         IN  IF mesh_faces_match(verts_a_sorted, verts_b_sorted, eps) THEN j
             ELSE ScanB(verts_a_sorted, ob, j + 1, eps)

(* addon.py 241-252: the loop over mesh_a.polygons from index i. *)
RECURSIVE FacesLoop(_, _, _, _)
FacesLoop(oa, ob, i, eps) ==
    IF i >= Len(oa.polygons) THEN <<>>
    ELSE LET verts_a == get_face_world_verts(oa, oa.polygons[i + 1])
             verts_a_sorted == sorted(verts_a)
             j == ScanB(verts_a_sorted, ob, 0, eps)
         IN  (IF j >= 0 THEN <<<<i, j>>>> ELSE <<>>) \o FacesLoop(oa, ob, i + 1, eps)

(* Mutant: the break of line 252 is missing, every matching polygon of B
   is recorded. *)
RECURSIVE AllMatchesB(_, _, _, _, _)
AllMatchesB(verts_a_sorted, ob, i, j, eps) ==
    IF j >= Len(ob.polygons) THEN <<>>
    ELSE (IF mesh_faces_match(verts_a_sorted,
                              sorted(get_face_world_verts(ob, ob.polygons[j + 1])), eps)
          THEN <<<<i, j>>>> ELSE <<>>)
         \o AllMatchesB(verts_a_sorted, ob, i, j + 1, eps)

RECURSIVE FacesLoop_NoBreak(_, _, _, _)
FacesLoop_NoBreak(oa, ob, i, eps) ==
    IF i >= Len(oa.polygons) THEN <<>>
    ELSE AllMatchesB(sorted(get_face_world_verts(oa, oa.polygons[i + 1])), ob, i, 0, eps)
         \o FacesLoop_NoBreak(oa, ob, i + 1, eps)

find_common_faces_NoBreak(oa, ob, eps) ==
    IF oa.type # "MESH" \/ ob.type # "MESH" THEN <<>>
    ELSE FacesLoop_NoBreak(oa, ob, 0, eps)

(* addon.py 227-254 *)
find_common_faces(oa, ob, eps) ==
    IF oa.type # "MESH" \/ ob.type # "MESH" THEN <<>>
    ELSE FacesLoop(oa, ob, 0, eps)

(* The variables of an entry point that a run does not exercise. *)
MatchIdle == f1_verts = <<>> /\ f2_verts = <<>> /\ result = FALSE
FindIdle == obj_a = NoObject /\ obj_b = NoObject /\ common = <<>> /\ contact = ""
CubesIdle ==
    /\ scene_objs = <<>> /\ cube_count = 0 /\ grid_spacing = 0
    /\ use_collection = FALSE /\ dist_result = "" /\ dist_entry = "" /\ calls = 0
NotValidated == [raised |-> "", ret |-> FALSE, calls |-> 0, visited |-> {}]
TreeAuxIdle == valid = NotValidated /\ order = <<>> /\ yaml_str = <<>> /\ loaded = <<>>
TreeIdle == heap = <<>> /\ tree_root = 0 /\ tree_op = "" /\ raised = "" /\ TreeAuxIdle
MergeIdle ==
    /\ objects = <<>> /\ ret = FALSE /\ joined = FALSE /\ classified = FALSE
    /\ merged = NoObject /\ last_merge_failure_reason = ""
    /\ weld_drops_doubles = FALSE
    /\ scanned = FALSE /\ world = "" /\ scene = {} /\ selection = {}
    /\ active = NoObject /\ op_result = "" /\ report = ""
    /\ reason_before = ""

(* ------------------------ program constants ---------------------------- *)
FACE_EPSILON == 1       \* addon.py 43: 1e-6, one tick
RoundTicks == 10        \* addon.py 355: round(x, 5), a grid of 1e-5 = 10 ticks
AreaThreshold == 100    \* addon.py 357: 1e-10, in square ticks

(* ----------------------- contact classifier ---------------------------- *)
(* addon.py 257-261 *)
_mesh_vertex_positions(obj) ==
    IF obj.type # "MESH" \/ obj.vertices = <<>> THEN <<>>
    ELSE [k \in 1..Len(obj.vertices) |-> VAdd(obj.loc, obj.vertices[k])]

DistSq(p, q) ==
    (p[1] - q[1]) * (p[1] - q[1]) + (p[2] - q[2]) * (p[2] - q[2])
        + (p[3] - q[3]) * (p[3] - q[3])

(* (Vector(va) - Vector(vb)).length <= eps, on squares. *)
WithinDist(p, q, eps) == eps >= 0 /\ DistSq(p, q) <= eps * eps

MinOf(S) == CHOOSE m \in S : \A x \in S : m <= x

VertexPairs(verts_a, verts_b) == (1..Len(verts_a)) \X (1..Len(verts_b))

(* addon.py 275-282: touch_count, the number of pairs (va, vb) with
   d <= epsilon, every pair counted. *)
touch_count(verts_a, verts_b, eps) ==
    Cardinality({p \in VertexPairs(verts_a, verts_b) :
                    WithinDist(verts_a[p[1]], verts_b[p[2]], eps)})

(* addon.py 276-280: min_dist over all pairs, as its square. *)
min_dist_sq(verts_a, verts_b) ==
    MinOf({DistSq(verts_a[p[1]], verts_b[p[2]]) : p \in VertexPairs(verts_a, verts_b)})

(* Mutant of the classifier: one pair within epsilon is an edge touch. *)
_classify_merge_failure_reason_AnyTouchIsEdge(oa, ob, eps) ==
    LET verts_a == _mesh_vertex_positions(oa)
        verts_b == _mesh_vertex_positions(ob)
    IN  IF verts_a = <<>> \/ verts_b = <<>> THEN "gap"
        ELSE IF eps < 0 \/ min_dist_sq(verts_a, verts_b) > eps * eps THEN "gap"
        ELSE IF touch_count(verts_a, verts_b, eps) >= 1 THEN "edge-touch"
        ELSE "corner-touch"

(* addon.py 264-288 *)
_classify_merge_failure_reason(oa, ob, eps) ==
    LET verts_a == _mesh_vertex_positions(oa)
        verts_b == _mesh_vertex_positions(ob)
    IN  IF verts_a = <<>> \/ verts_b = <<>> THEN "gap"
        ELSE IF eps < 0 \/ min_dist_sq(verts_a, verts_b) > eps * eps THEN "gap"
        ELSE IF touch_count(verts_a, verts_b, eps) >= 2 THEN "edge-touch"
        ELSE "corner-touch"

(* -------------------------- merge executor ----------------------------- *)
(* addon.py 303-309: the pairwise gate; the inner loop over j from i + 1,
   left at the first pair with a common face. *)
RECURSIVE GateLoopJ(_, _, _)
GateLoopJ(objs, i, j) ==
    IF j >= Len(objs) THEN FALSE
    ELSE IF find_common_faces(objs[i + 1], objs[j + 1], FACE_EPSILON) # <<>> THEN TRUE
    ELSE GateLoopJ(objs, i, j + 1)

(* Mutant of the gate: every pair must share a face. *)
RECURSIVE AllLoopJ(_, _, _)
AllLoopJ(objs, i, j) ==
    IF j >= Len(objs) THEN TRUE
    ELSE IF find_common_faces(objs[i + 1], objs[j + 1], FACE_EPSILON) = <<>> THEN FALSE
    ELSE AllLoopJ(objs, i, j + 1)

RECURSIVE GateLoopI_AllPairs(_, _)
GateLoopI_AllPairs(objs, i) ==
    IF i >= Len(objs) THEN TRUE
    ELSE IF ~AllLoopJ(objs, i, i + 1) THEN FALSE
    ELSE GateLoopI_AllPairs(objs, i + 1)

(* addon.py 302-309: the outer loop over i; the value of has_common. *)
RECURSIVE GateLoopI(_, _)
GateLoopI(objs, i) ==
    IF i >= Len(objs) THEN FALSE
    ELSE IF GateLoopJ(objs, i, i + 1) THEN TRUE
    ELSE GateLoopI(objs, i + 1)

(* Mutant of the classification: the last reason other than "gap" of the
   row of pairs (i, j). *)
RECURSIVE ReasonLoopJ_Last(_, _, _)
ReasonLoopJ_Last(objs, i, j) ==
    IF j >= Len(objs) THEN "gap"
    ELSE LET r == _classify_merge_failure_reason(objs[i + 1], objs[j + 1], FACE_EPSILON)
             later == ReasonLoopJ_Last(objs, i, j + 1)
         IN  IF later # "gap" THEN later ELSE r

(* addon.py 314-322: the classification loops; the first reason other than
   "gap" in the order of the pairs (i, j), "gap" if there is none. *)
RECURSIVE ReasonLoopJ(_, _, _)
ReasonLoopJ(objs, i, j) ==
    IF j >= Len(objs) THEN "gap"
    ELSE LET r == _classify_merge_failure_reason(objs[i + 1], objs[j + 1], FACE_EPSILON)
         IN  IF r # "gap" THEN r ELSE ReasonLoopJ(objs, i, j + 1)

RECURSIVE ReasonLoopI(_, _)
ReasonLoopI(objs, i) ==
    IF i >= Len(objs) THEN "gap"
    ELSE LET r == ReasonLoopJ(objs, i, i + 1)
         IN  IF r # "gap" THEN r ELSE ReasonLoopI(objs, i + 1)

(* addon.py 323-331 *)
FailureMessage(reason) ==
    IF reason = "gap" THEN "No common face (gap between meshes)"
    ELSE IF reason = "edge-touch" THEN "Touch only at edge; full face contact required"
    ELSE "Touch only at corner; full face contact required"

(* addon.py 335-341, bpy.ops.object.join(): the meshes of all objects in
   the space of objects[0], polygons re-indexed by the vertex counts before
   them. *)
RECURSIVE JoinLoop(_, _, _, _)
JoinLoop(objs, k, verts, polys) ==
    IF k > Len(objs) THEN [vertices |-> verts, polygons |-> polys]
    ELSE LET o == objs[k]
             moved == [n \in 1..Len(o.vertices) |->
                          VSub(VAdd(o.loc, o.vertices[n]), objs[1].loc)]
             shifted == [n \in 1..Len(o.polygons) |->
                            [c \in 1..Len(o.polygons[n]) |-> o.polygons[n][c] + Len(verts)]]
         IN  JoinLoop(objs, k + 1, verts \o moved, polys \o shifted)

JoinObjects(objs) ==
    LET j == JoinLoop(objs, 1, <<>>, <<>>)
    IN  [type |-> "MESH", loc |-> objs[1].loc,
         vertices |-> j.vertices, polygons |-> j.polygons]

(* addon.py 346, bpy.ops.mesh.remove_doubles(threshold): vertices taken in
   index order; a vertex within the threshold of a vertex already kept is
   merged into the first such vertex, any other vertex is kept.  reps holds
   the kept vertices' old indices, map the new index of every old vertex. *)
RECURSIVE WeldLoop(_, _, _, _, _)
WeldLoop(verts, k, reps, map, threshold) ==
    IF k > Len(verts) THEN [reps |-> reps, map |-> map]
    ELSE LET near == {r \in 1..Len(reps) : WithinDist(verts[reps[r]], verts[k], threshold)}
         IN  IF near = {}
             THEN WeldLoop(verts, k + 1, Append(reps, k), Append(map, Len(reps)), threshold)
             ELSE WeldLoop(verts, k + 1, reps, Append(map, MinOf(near) - 1), threshold)

(* A welded loop with the vertices that fell together counted once. *)
RECURSIVE DropRepeats(_)
DropRepeats(loop) ==
    IF Len(loop) <= 1 THEN loop
    ELSE LET rest == DropRepeats(SubSeq(loop, 1, Len(loop) - 1))
             v == loop[Len(loop)]
         IN  IF v = rest[Len(rest)] \/ v = rest[1] THEN rest ELSE Append(rest, v)

LoopSet(loop) == {loop[k] : k \in 1..Len(loop)}

(* The faces after welding: loops of fewer than three vertices are gone;
   when drops is TRUE, so is a face on the vertices of an earlier face. *)
RECURSIVE WeldFaces(_, _, _, _)
WeldFaces(polys, k, kept, drops) ==
    IF k > Len(polys) THEN kept
    ELSE LET f == DropRepeats(polys[k])
             double == \E n \in 1..Len(kept) : LoopSet(kept[n]) = LoopSet(f)
         IN  IF Len(f) < 3 \/ (drops /\ double) THEN WeldFaces(polys, k + 1, kept, drops)
             ELSE WeldFaces(polys, k + 1, Append(kept, f), drops)

remove_doubles(mesh, threshold, drops) ==
    LET w == WeldLoop(mesh.vertices, 1, <<>>, <<>>, threshold)
        relinked == [n \in 1..Len(mesh.polygons) |->
                        [c \in 1..Len(mesh.polygons[n]) |-> w.map[mesh.polygons[n][c] + 1]]]
    IN  [type |-> "MESH", loc |-> mesh.loc,
         vertices |-> [r \in 1..Len(w.reps) |-> mesh.vertices[w.reps[r]]],
         polygons |-> WeldFaces(relinked, 1, <<>>, drops)]

(* round(x, 5): to the nearest multiple of 10 ticks, a tie to the even one. *)
Round5(x) ==
    LET q == x \div RoundTicks
        r == x % RoundTicks
    IN  IF 2 * r < RoundTicks THEN RoundTicks * q
        ELSE IF 2 * r > RoundTicks THEN RoundTicks * (q + 1)
        ELSE IF q % 2 = 0 THEN RoundTicks * q
        ELSE RoundTicks * (q + 1)

(* addon.py 355-356: the sorted tuple of the face's rounded v.co. *)
verts_key(mesh, face) ==
    sorted([c \in 1..Len(face) |->
               <<Round5(mesh.vertices[face[c] + 1][1]),
                 Round5(mesh.vertices[face[c] + 1][2]),
                 Round5(mesh.vertices[face[c] + 1][3])>>])

Cross(u, v) ==
    <<u[2] * v[3] - u[3] * v[2], u[3] * v[1] - u[1] * v[3], u[1] * v[2] - u[2] * v[1]>>

(* Twice the area vector of the polygon: the sum of the cross products of
   consecutive vertices, taken relative to the first vertex. *)
RECURSIVE AreaVector2(_, _)
AreaVector2(pts, k) ==
    IF k >= Len(pts) THEN <<0, 0, 0>>
    ELSE VAdd(Cross(VSub(pts[k], pts[1]), VSub(pts[k + 1], pts[1])),
              AreaVector2(pts, k + 1))

(* addon.py 357: f.calc_area() < 1e-10, on the square of twice the area. *)
AreaBelowThreshold(mesh, face) ==
    LET pts == [c \in 1..Len(face) |-> mesh.vertices[face[c] + 1]]
    IN  DistSq(AreaVector2(pts, 1), <<0, 0, 0>>) < 4 * AreaThreshold * AreaThreshold

(* addon.py 352-362: the loop over bm.faces from face k; seen is the set of
   keys met so far, kept the faces not put on to_remove. *)
RECURSIVE DedupLoop(_, _, _, _)
DedupLoop(mesh, k, seen, kept) ==
    IF k > Len(mesh.polygons) THEN kept
    ELSE LET f == mesh.polygons[k]
             key == verts_key(mesh, f)
         IN  IF key \in seen \/ AreaBelowThreshold(mesh, f)
             THEN DedupLoop(mesh, k + 1, seen, kept)
             ELSE DedupLoop(mesh, k + 1, seen \cup {key}, Append(kept, f))

(* addon.py 349-363 *)
remove_duplicate_faces(mesh) == DedupLoop(mesh, 1, {}, <<>>)

Range(seq) == {seq[k] : k \in 1..Len(seq)}

(* Mutant of the scene update: the selection of addon.py 335-338 is made
   before the gate, so a failed call has changed the select flags. *)
merge_view_SelectFirst(objs, has_common, merged_obj, view) ==
    IF ~has_common
    THEN [view EXCEPT !.selection = Range(objs), !.active = objs[1]]
    ELSE [scene |-> (view.scene \ Range(objs)) \cup {merged_obj},
          selection |-> {merged_obj},
          active |-> merged_obj]

(* addon.py 332-341 and 364: what the call does to the scene.  A call that
   fails the gate returns before it touches an object; after the join the
   objects of the list are gone, the merged object is there instead, and
   it is the selected and the active object. *)
merge_view(objs, has_common, merged_obj, view) ==
    IF ~has_common THEN view
    ELSE [scene |-> (view.scene \ Range(objs)) \cup {merged_obj},
          selection |-> {merged_obj},
          active |-> merged_obj]

(* Mutant of the call: a gap leaves the global as it was. *)
merge_from_gate_GapKeepsReason(objs, old_reason, drops, view) ==
    IF ~GateLoopI(objs, 0)
    THEN [ret |-> FALSE, scanned |-> TRUE, joined |-> FALSE, classified |-> TRUE,
          reason |-> IF ReasonLoopI(objs, 0) = "gap" THEN old_reason
                     ELSE FailureMessage(ReasonLoopI(objs, 0)),
          merged |-> NoObject,
          view |-> merge_view(objs, FALSE, NoObject, view)]
    ELSE LET welded == remove_doubles(JoinObjects(objs), FACE_EPSILON, drops)
             done == [welded EXCEPT !.polygons = remove_duplicate_faces(welded)]
         IN  [ret |-> TRUE, scanned |-> TRUE, joined |-> TRUE, classified |-> FALSE,
              reason |-> old_reason, merged |-> done,
              view |-> merge_view(objs, TRUE, done, view)]

(* The values a call leaves behind when it passed the length check. *)
merge_from_gate(objs, old_reason, drops, view) ==
    IF ~GateLoopI(objs, 0)
    THEN [ret |-> FALSE, scanned |-> TRUE, joined |-> FALSE, classified |-> TRUE,
          reason |-> FailureMessage(ReasonLoopI(objs, 0)), merged |-> NoObject,
          view |-> merge_view(objs, FALSE, NoObject, view)]
    ELSE LET welded == remove_doubles(JoinObjects(objs), FACE_EPSILON, drops)
             done == [welded EXCEPT !.polygons = remove_duplicate_faces(welded)]
         IN  [ret |-> TRUE, scanned |-> TRUE, joined |-> TRUE, classified |-> FALSE,
              reason |-> old_reason, merged |-> done,
              view |-> merge_view(objs, TRUE, done, view)]

(* Mutant of the call: the length check of addon.py 297-299 is missing. *)
merge_meshes_with_common_faces_NoLenCheck(objs, old_reason, drops, view) ==
    merge_from_gate(objs, old_reason, drops, view)

(* addon.py 291-367: the whole call, as the values it leaves behind. *)
merge_meshes_with_common_faces(objs, old_reason, drops, view) ==
    IF Len(objs) < 2
    THEN [ret |-> FALSE, scanned |-> FALSE, joined |-> FALSE, classified |-> FALSE,
          reason |-> old_reason, merged |-> NoObject, view |-> view]
    ELSE merge_from_gate(objs, old_reason, drops, view)

(* ---------------------- the Merge Meshes operator ---------------------- *)
RECURSIVE MeshesOf(_)
(* addon.py 467: [o for o in context.selected_objects if o.type == "MESH"] *)
MeshesOf(sel) ==
    IF sel = <<>> THEN <<>>
    ELSE IF sel[1].type = "MESH" THEN <<sel[1]>> \o MeshesOf(SubSeq(sel, 2, Len(sel)))
    ELSE MeshesOf(SubSeq(sel, 2, Len(sel)))

SelectAtLeastTwo == "Select at least 2 meshes to merge"
MergedSuccessfully == "Meshes merged successfully"
NoCommonFaces == "No common faces between selected meshes"

(* What the operator returns and reports after the call of addon.py 471. *)
execute_after_call(out) ==
    IF out.ret
    THEN [op_result |-> "FINISHED", report |-> MergedSuccessfully, out |-> out]
    ELSE [op_result |-> "CANCELLED",
          report |-> IF out.reason # "" THEN out.reason ELSE NoCommonFaces,
          out |-> out]

(* Mutant of the operator: the check of addon.py 468-470 is missing. *)
execute_NoPrecheck(sel, drops, view) ==
    execute_after_call(merge_meshes_with_common_faces(MeshesOf(sel), "", drops, view))

(* addon.py 464-476, CFD_FOSSEE_OT_MergeMeshes.execute: the global is
   cleared, the selection filtered, fewer than 2 meshes refused, the merge
   called and its outcome reported. *)
execute(sel, drops, view) ==
    LET objs == MeshesOf(sel)
    IN  IF Len(objs) < 2
        THEN [op_result |-> "CANCELLED", report |-> SelectAtLeastTwo,
              out |-> [ret |-> FALSE, scanned |-> FALSE, joined |-> FALSE,
                       classified |-> FALSE, reason |-> "", merged |-> NoObject,
                       view |-> view]]
        ELSE execute_after_call(merge_meshes_with_common_faces(objs, "", drops, view))

(* --------------------- inputs of the merge runs ------------------------ *)
HalfSide == 20      \* half the side of a cube of Blender size 1, in ticks
MaxObjs == 3        \* most objects handed to one merge call
MaxClsVerts == 2    \* most vertices of an object handed to the classifier
MaxCount == 3       \* the cube counts tried are 0..MaxCount, MAX_N - 1, MAX_N
MaxCalls == 2       \* most runs of Distribute Cubes in one scene
MaxNodes == 2       \* most BinaryNode objects made in one run
MaxPath == 2        \* longest path handed to a tree operation
MaxGraphNodes == 3  \* most nodes of a node graph handed to the validation
MaxEdges == 3       \* most links of a node graph handed to the validation
MaxTreeNodes == 3   \* most nodes of a tree handed to the traversals
MaxYamlNodes == 2   \* most nodes of a tree written to YAML and read back

Side == 2 * HalfSide

(* primitive_cube_add(size=1): eight corners and six quads. *)
CubeCorners ==
    <<<<-HalfSide, -HalfSide, -HalfSide>>, <<-HalfSide, -HalfSide, HalfSide>>,
      <<-HalfSide, HalfSide, -HalfSide>>, <<-HalfSide, HalfSide, HalfSide>>,
      <<HalfSide, -HalfSide, -HalfSide>>, <<HalfSide, -HalfSide, HalfSide>>,
      <<HalfSide, HalfSide, -HalfSide>>, <<HalfSide, HalfSide, HalfSide>>>>

CubeFaces ==
    <<<<0, 1, 3, 2>>, <<2, 3, 7, 6>>, <<6, 7, 5, 4>>,
      <<4, 5, 1, 0>>, <<2, 6, 4, 0>>, <<7, 3, 1, 5>>>>

Cube(loc) ==
    [type |-> "MESH", loc |-> loc, vertices |-> CubeCorners, polygons |-> CubeFaces]

(* Cube A at the origin; B translated by one side in x (a shared face);
   C by two sides (a gap to A, a shared face with B); D by one side and a
   tick (a face of A within epsilon); E by one side in x and y (an edge of
   A); K by one side in x, y and z (a corner of A). *)
CubeA == Cube(<<0, 0, 0>>)
CubeB == Cube(<<Side, 0, 0>>)
CubeC == Cube(<<2 * Side, 0, 0>>)
CubeD == Cube(<<Side + 1, 0, 0>>)
CubeE == Cube(<<Side, Side, 0>>)
CubeK == Cube(<<Side, Side, Side>>)
(* ------------------- inputs of the detector's runs --------------------- *)
(* A mesh object at loc whose polygons are the given world-space loops:
   every loop gets its own vertices, stored relative to loc. *)
RECURSIVE FlattenLoops(_)
FlattenLoops(faces) ==
    IF faces = <<>> THEN <<>>
    ELSE FlattenLoops(SubSeq(faces, 1, Len(faces) - 1)) \o faces[Len(faces)]

RECURSIVE IndexLoops(_, _)
IndexLoops(faces, first) ==
    IF faces = <<>> THEN <<>>
    ELSE <<[k \in 1..Len(faces[1]) |-> first + k - 1]>>
         \o IndexLoops(SubSeq(faces, 2, Len(faces)), first + Len(faces[1]))

MeshOf(loc, faces) ==
    [type |-> "MESH",
     loc |-> loc,
     vertices |-> [k \in 1..Len(FlattenLoops(faces)) |-> VSub(FlattenLoops(faces)[k], loc)],
     polygons |-> IndexLoops(faces, 0)]

(* World-space loops the meshes are made of: a square of side two ticks in
   the plane x = 0; the same square wound the other way from another start;
   the square with one vertex drifted by a tick in x; the square with every
   vertex drifted by a tick in x; a triangle on three of its corners. *)
Quad == <<<<0, 0, 0>>, <<0, 2, 0>>, <<0, 2, 2>>, <<0, 0, 2>>>>
QuadBack == <<<<0, 2, 0>>, <<0, 0, 0>>, <<0, 0, 2>>, <<0, 2, 2>>>>
QuadDrift == <<<<0, 0, 0>>, <<0, 2, 0>>, <<0, 2, 2>>, <<1, 0, 2>>>>
QuadShift == <<<<1, 0, 0>>, <<1, 2, 0>>, <<1, 2, 2>>, <<1, 0, 2>>>>
Tri == <<<<0, 0, 0>>, <<0, 2, 0>>, <<0, 2, 2>>>>
FindLoops == {Quad, QuadBack, QuadDrift, QuadShift, Tri}

LocA == <<0, 0, 0>>
LocB == <<3, 0, 0>>
FindObjects(loc) == {MeshOf(loc, fs) : fs \in Loops(FindLoops, MaxFaces)} \cup {NoObject}

(* --------------------- inputs of the merge runs, 2 --------------------- *)
(* The scene of cubes. *)
CubeScene == {CubeA, CubeB, CubeC, CubeE, CubeK}

(* The scene of small meshes of one face each: a square of side 20 ticks
   in the plane x = 20 (P); the same square one tick and two ticks further
   in x (S1, S2), so that P ~ S1 ~ S2 is a chain of vertices a tick apart
   which all round to the same 10-tick grid; the square three ticks
   further (S3), which is more than a tick from the others and still
   rounds as they do; two coincident triangles of area 50 square ticks
   (T1, T2); and a light, which is no mesh. *)
Square(x) == <<<<x, 0, 0>>, <<x, 20, 0>>, <<x, 20, 20>>, <<x, 0, 20>>>>
TinyTri == <<<<0, 0, 50>>, <<10, 0, 50>>, <<0, 10, 50>>>>
MeshP == MeshOf(<<0, 0, 0>>, <<Square(20)>>)
MeshS1 == MeshOf(<<0, 0, 0>>, <<Square(21)>>)
MeshS2 == MeshOf(<<0, 0, 0>>, <<Square(22)>>)
MeshS3 == MeshOf(<<0, 0, 0>>, <<Square(23)>>)
MeshT1 == MeshOf(<<0, 0, 0>>, <<TinyTri>>)
MeshT2 == MeshOf(<<5, 0, 0>>, <<TinyTri>>)
Light == [type |-> "LIGHT", loc |-> <<0, 0, 90>>, vertices |-> <<>>, polygons |-> <<>>]
SmallScene == {MeshP, MeshS1, MeshS2, MeshS3, MeshT1, MeshT2, Light}

(* The scene of contacts: the square P; a square in its plane that has
   only the corner (20, 0, 0) in common with it (U); a square in its plane
   that has the edge from (20, 20, 0) to (20, 20, 20) in common with it (V).
   U and V are apart. *)
MeshU == MeshOf(<<0, 0, 0>>, <<<<<<20, 0, 0>>, <<20, -20, 0>>, <<20, -20, -20>>, <<20, 0, -20>>>>>>)
MeshV == MeshOf(<<0, 0, 0>>, <<<<<<20, 20, 0>>, <<20, 40, 0>>, <<20, 40, 20>>, <<20, 20, 20>>>>>>)
ContactScene == {MeshP, MeshU, MeshV}

SceneOf(w) ==
    IF w = "cubes" THEN CubeScene
    ELSE IF w = "small" THEN SmallScene
    ELSE ContactScene

MergeObjects == CubeScene \cup SmallScene \cup ContactScene

(* ------------------- specification: merge executor --------------------- *)
MergeInit ==
    /\ mode = "merge"
    /\ world \in {"cubes", "small", "contact"}
    /\ scene = SceneOf(world)
    /\ selection = {}
    /\ active = NoObject
    /\ objects = <<>>
    /\ ret = FALSE /\ joined = FALSE /\ classified = FALSE /\ scanned = FALSE
    /\ merged = NoObject
    /\ op_result = "" /\ report = ""
    /\ last_merge_failure_reason = ""
    /\ reason_before = ""
    /\ weld_drops_doubles \in BOOLEAN
    /\ epsilon = FACE_EPSILON
    /\ MatchIdle
    /\ FindIdle
    /\ pc = "select"
    /\ CubesIdle
    /\ TreeIdle

View == [scene |-> scene, selection |-> selection, active |-> active]

(* One more object of the scene is selected; objects is the selection in
   the order the call will see it. *)
SelectObject ==
    /\ mode = "merge"
    /\ pc = "select"
    /\ Len(objects) < MaxObjs
    /\ \E o \in scene \ selection :
          /\ objects' = Append(objects, o)
          /\ selection' = selection \cup {o}
    /\ UNCHANGED <<cubeVars, treeVars, ret, joined, classified, merged, last_merge_failure_reason,
                   weld_drops_doubles, scanned, world, scene, active, op_result,
                   report, reason_before, matchVars, findVars, epsilon, mode, pc>>

(* merge_meshes_with_common_faces called directly on the selected meshes. *)
CallMerge ==
    /\ mode = "merge"
    /\ pc = "select"
    /\ \A k \in 1..Len(objects) : objects[k].type = "MESH"
    /\ \E out \in {merge_meshes_with_common_faces(objects, last_merge_failure_reason,
                                                   weld_drops_doubles, View)} :
           /\ ret' = out.ret
           /\ scanned' = out.scanned
           /\ joined' = out.joined
           /\ classified' = out.classified
           /\ merged' = out.merged
           /\ last_merge_failure_reason' = out.reason
           /\ scene' = out.view.scene
           /\ selection' = out.view.selection
           /\ active' = out.view.active
    /\ reason_before' = last_merge_failure_reason
    /\ pc' = "done"
    /\ UNCHANGED <<cubeVars, treeVars, objects, weld_drops_doubles, world, op_result, report,
                   matchVars, findVars, epsilon, mode>>

(* The Merge Meshes operator run on the selection. *)
ExecuteMerge ==
    /\ mode = "merge"
    /\ pc = "select"
    /\ \E op \in {execute(objects, weld_drops_doubles, View)} :
           /\ op_result' = op.op_result
           /\ report' = op.report
           /\ ret' = op.out.ret
           /\ scanned' = op.out.scanned
           /\ joined' = op.out.joined
           /\ classified' = op.out.classified
           /\ merged' = op.out.merged
           /\ last_merge_failure_reason' = op.out.reason
           /\ scene' = op.out.view.scene
           /\ selection' = op.out.view.selection
           /\ active' = op.out.view.active
    /\ reason_before' = last_merge_failure_reason
    /\ pc' = "done"
    /\ UNCHANGED <<cubeVars, treeVars, objects, weld_drops_doubles, world, matchVars, findVars,
                   epsilon, mode>>

(* The next request: a merge that went through is undone (bl_options UNDO)
   and everything is deselected; the module global keeps its value. *)
NextRequest ==
    /\ mode = "merge"
    /\ pc = "done"
    /\ objects' = <<>>
    /\ scene' = SceneOf(world)
    /\ selection' = {}
    /\ active' = NoObject
    /\ ret' = FALSE /\ joined' = FALSE /\ classified' = FALSE /\ scanned' = FALSE
    /\ merged' = NoObject
    /\ op_result' = "" /\ report' = ""
    /\ reason_before' = ""
    /\ pc' = "select"
    /\ UNCHANGED <<cubeVars, treeVars, last_merge_failure_reason, weld_drops_doubles, world,
                   matchVars, findVars, epsilon, mode>>

MergeNext == SelectObject \/ CallMerge \/ ExecuteMerge \/ NextRequest

SpecMerge == MergeInit /\ [][MergeNext]_vars

(* ----------------------- specification: detector ----------------------- *)
FindInit ==
    /\ mode = "find"
    /\ obj_a \in FindObjects(LocA)
    /\ obj_b \in FindObjects(LocB)
    /\ epsilon \in 0..MaxEps
    /\ common = <<>>
    /\ contact = ""
    /\ MatchIdle
    /\ MergeIdle
    /\ pc = "call"
    /\ CubesIdle
    /\ TreeIdle

CallFind ==
    /\ mode = "find"
    /\ pc = "call"
    /\ common' = find_common_faces(obj_a, obj_b, epsilon)
    /\ pc' = "done"
    /\ UNCHANGED <<cubeVars, treeVars, obj_a, obj_b, contact, epsilon, matchVars, mergeVars, mode>>

FindNext == CallFind

SpecFind == FindInit /\ [][FindNext]_vars

(* ---------------------- specification: classifier ---------------------- *)
(* Points the classifier's inputs are drawn from: (0,0,0) and (1,1,0) are a
   tick apart on every axis and more than a tick apart. *)
ClassifyPoints == {<<0, 0, 0>>, <<1, 0, 0>>, <<1, 1, 0>>, <<0, 0, 2>>}

(* Objects of up to MaxClsVerts vertices and no face, and a light. *)
ClassifyObjects(loc) ==
    {[type |-> "MESH", loc |-> loc, vertices |-> vs, polygons |-> <<>>] :
        vs \in Loops(ClassifyPoints, MaxClsVerts)}
    \cup {[type |-> "LIGHT", loc |-> loc, vertices |-> <<>>, polygons |-> <<>>]}

ClassifyInit ==
    /\ mode = "classify"
    /\ obj_a \in ClassifyObjects(<<0, 0, 0>>)
    /\ obj_b \in ClassifyObjects(<<0, 0, 0>>) \cup ClassifyObjects(<<0, 1, 0>>)
    /\ epsilon \in Epsilons
    /\ common = <<>>
    /\ contact = ""
    /\ MatchIdle
    /\ MergeIdle
    /\ pc = "call"
    /\ CubesIdle
    /\ TreeIdle

CallClassify ==
    /\ mode = "classify"
    /\ pc = "call"
    /\ contact' = _classify_merge_failure_reason(obj_a, obj_b, epsilon)
    /\ pc' = "done"
    /\ UNCHANGED <<cubeVars, treeVars, obj_a, obj_b, common, epsilon, matchVars, mergeVars, mode>>

ClassifyNext == CallClassify

SpecClassify == ClassifyInit /\ [][ClassifyNext]_vars

(* ----------------------- specification: matcher ------------------------ *)
MatchInit ==
    /\ mode = "match"
    /\ f1_verts \in Loops(MatchPoints, MaxVerts)
    /\ f2_verts \in Loops(MatchPoints, MaxVerts)
    /\ epsilon \in Epsilons
    /\ result = FALSE
    /\ FindIdle
    /\ MergeIdle
    /\ pc = "call"
    /\ CubesIdle
    /\ TreeIdle

CallMatch ==
    /\ mode = "match"
    /\ pc = "call"
    /\ result' = mesh_faces_match(f1_verts, f2_verts, epsilon)
    /\ pc' = "done"
    /\ UNCHANGED <<cubeVars, treeVars, f1_verts, f2_verts, epsilon, findVars, mergeVars, mode>>

MatchNext == CallMatch

SpecMatch == MatchInit /\ [][MatchNext]_vars

(* ------------------------- cube distribution --------------------------- *)
(* Lengths of the cube grid are hundredths of a Blender unit. *)
MAX_N == 20
CubeSize == 100
Margin == 1
DEFAULT_GRID_SPACING == 150
MinSpacing == 101
CubeStem == "CFD-FOSSEE_Cube"
CubeHalf == CubeSize \div 2

MaxOf(S) == CHOOSE x \in S : \A y \in S : y <= x

(* The corners of the box between two corners, as a mesh's world vertices. *)
BoxVerts(mn, mx) ==
    <<<<mn[1], mn[2], mn[3]>>, <<mn[1], mn[2], mx[3]>>,
      <<mn[1], mx[2], mn[3]>>, <<mn[1], mx[2], mx[3]>>,
      <<mx[1], mn[2], mn[3]>>, <<mx[1], mn[2], mx[3]>>,
      <<mx[1], mx[2], mn[3]>>, <<mx[1], mx[2], mx[3]>>>>

(* addon.py 77-85: the bounding box of an object's world vertices. *)
BoundsOf(obj) ==
    <<[c \in 1..3 |-> MinOf({obj.verts[k][c] : k \in 1..Len(obj.verts)})],
      [c \in 1..3 |-> MaxOf({obj.verts[k][c] : k \in 1..Len(obj.verts)})]>>

(* addon.py 71-78: the objects whose bounds are taken: meshes in object mode
   with a vertex, whose name does not start with CFD-FOSSEE_Cube. *)
CountsAsExisting(obj) ==
    /\ obj.type = "MESH"
    /\ obj.name.stem # CubeStem
    /\ obj.mode = "OBJECT"
    /\ obj.verts # <<>>

RECURSIVE BoundsLoop(_, _)
BoundsLoop(objs, k) ==
    IF k > Len(objs) THEN <<>>
    ELSE IF CountsAsExisting(objs[k]) THEN <<BoundsOf(objs[k])>> \o BoundsLoop(objs, k + 1)
    ELSE BoundsLoop(objs, k + 1)

(* addon.py 65-87 *)
get_existing_bounds(objs) == BoundsLoop(objs, 1)

(* addon.py 90-97 *)
overlaps_existing(cube_min, cube_max, existing) ==
    \E k \in 1..Len(existing) :
        \A c \in 1..3 :
            /\ cube_min[c] - Margin <= existing[k][2][c]
            /\ cube_max[c] + Margin >= existing[k][1][c]

(* math.ceil(math.sqrt(n)) *)
CeilSqrt(n) == CHOOSE m \in 0..n : m * m >= n /\ (m = 0 \/ (m - 1) * (m - 1) < n)

(* Mutant of the grid shape: the rows are rounded down. *)
compute_grid_shape_FloorRows(n) ==
    LET m == CeilSqrt(n)
    IN  [n_rows |-> n \div m, n_cols |-> m]

(* addon.py 100-105 *)
compute_grid_shape(n) ==
    LET m == CeilSqrt(n)
    IN  [n_rows |-> (n + m - 1) \div m, n_cols |-> m]

CubeMin(base, row, col, spacing) ==
    <<base[1] + col * spacing - CubeHalf, base[2] + row * spacing - CubeHalf, 0 - CubeHalf>>
CubeMax(base, row, col, spacing) ==
    <<base[1] + col * spacing + CubeHalf, base[2] + row * spacing + CubeHalf, CubeHalf>>

(* addon.py 140-146: while the cube is within the margin of a box of the
   list, the base moves by one spacing in x and y and the list is read
   again from the scene. *)
RECURSIVE ShiftLoop(_, _, _, _, _, _)
ShiftLoop(base, row, col, spacing, existing, objs) ==
    IF overlaps_existing(CubeMin(base, row, col, spacing),
                         CubeMax(base, row, col, spacing), existing)
    THEN ShiftLoop(<<base[1] + spacing, base[2] + spacing>>, row, col, spacing,
                   get_existing_bounds(objs), objs)
    ELSE [base |-> base, existing |-> existing]

(* addon.py 150-151: the name given; Blender numbers a name already taken. *)
CubeName(objs, cube_idx) ==
    [stem |-> CubeStem, idx |-> cube_idx,
     copy |-> Cardinality({k \in 1..Len(objs) :
                 objs[k].name.stem = CubeStem /\ objs[k].name.idx = cube_idx})]

(* addon.py 115, 153-156: the collection the cube ends in. *)
CubeCollection(use_coll) == IF use_coll THEN "CFD-FOSSEE Cubes" ELSE "Scene Collection"

(* addon.py 126-159: the loops over the rows and columns of the grid, from
   cell (row, col); past the last column the next row starts, and the
   inner loop is left once n cubes are there. *)
RECURSIVE GridLoop(_, _, _, _, _, _, _, _, _, _)
GridLoop(n, spacing, use_coll, shape, row, col, cube_idx, base, existing, st) ==
    IF row >= shape.n_rows THEN st
    ELSE IF col >= shape.n_cols \/ cube_idx >= n
    THEN GridLoop(n, spacing, use_coll, shape, row + 1, 0, cube_idx, base, existing, st)
    ELSE LET sh == ShiftLoop(base, row, col, spacing, existing, st.objs)
             cube_min == CubeMin(sh.base, row, col, spacing)
             cube_max == CubeMax(sh.base, row, col, spacing)
             name == CubeName(st.objs, cube_idx)
             obj == [type |-> "MESH", name |-> name, mode |-> "OBJECT",
                     verts |-> BoxVerts(cube_min, cube_max),
                     coll |-> CubeCollection(use_coll)]
         IN  GridLoop(n, spacing, use_coll, shape, row, col + 1, cube_idx + 1, sh.base,
                      Append(sh.existing, <<cube_min, cube_max>>),
                      [objs |-> Append(st.objs, obj),
                       created |-> st.created \cup {name}])

(* addon.py 108-161 *)
distribute_cubes(objs, n, spacing, use_coll) ==
    LET existing_bounds == get_existing_bounds(objs)
        base == IF existing_bounds # <<>>
                THEN <<MaxOf({existing_bounds[k][2][1] : k \in 1..Len(existing_bounds)}) + spacing,
                       MaxOf({existing_bounds[k][2][2] : k \in 1..Len(existing_bounds)}) + spacing>>
                ELSE <<0, 0>>
    IN  GridLoop(n, spacing, use_coll, compute_grid_shape(n), 0, 0, 0, base,
                 existing_bounds, [objs |-> objs, created |-> {}])

(* addon.py 407-423, CFD_FOSSEE_OT_DistributeCubes.execute; distribute_cubes
   raises nothing in the model, so the except branch is not taken. *)
distribute_execute(objs, n, spacing, use_coll) ==
    IF n < 1 \/ n >= MAX_N
    THEN [result |-> "CANCELLED", objs |-> objs]
    ELSE [result |-> "FINISHED", objs |-> distribute_cubes(objs, n, spacing, use_coll).objs]

(* addon.py 397-405, CFD_FOSSEE_OT_DistributeCubes.invoke *)
distribute_invoke(objs, n, spacing, use_coll) ==
    IF n < 1 \/ n >= MAX_N
    THEN [result |-> "CANCELLED", objs |-> objs]
    ELSE distribute_execute(objs, n, spacing, use_coll)

(* ------------------- specification: cube distribution ------------------ *)
(* The objects a scene may hold before the first run: Blender's default
   cube of size 2 at the origin, a flat plane beside it, a light. *)
OtherName(stem) == [stem |-> stem, idx |-> 0, copy |-> 0]
BlockObject ==
    [type |-> "MESH", name |-> OtherName("Cube"), mode |-> "OBJECT",
     verts |-> BoxVerts(<<0 - 100, 0 - 100, 0 - 100>>, <<100, 100, 100>>),
     coll |-> "Scene Collection"]
PlaneObject ==
    [type |-> "MESH", name |-> OtherName("Plane"), mode |-> "OBJECT",
     verts |-> <<<<200, 0 - 30, 0>>, <<260, 0 - 30, 0>>, <<260, 30, 0>>, <<200, 30, 0>>>>,
     coll |-> "Scene Collection"]
LightObject ==
    [type |-> "LIGHT", name |-> OtherName("Light"), mode |-> "OBJECT",
     verts |-> <<>>, coll |-> "Scene Collection"]
CubeScenes == {<<>>, <<LightObject, BlockObject>>, <<BlockObject, PlaneObject>>}

Spacings == {MinSpacing, DEFAULT_GRID_SPACING}
CubeCounts == (0..MaxCount) \cup {MAX_N - 1, MAX_N}

CubesInit ==
    /\ mode = "cubes"
    /\ scene_objs \in CubeScenes
    /\ grid_spacing \in Spacings
    /\ use_collection \in BOOLEAN
    /\ cube_count = 9
    /\ dist_result = "" /\ dist_entry = ""
    /\ calls = 0
    /\ epsilon = FACE_EPSILON
    /\ MatchIdle
    /\ FindIdle
    /\ MergeIdle
    /\ TreeIdle
    /\ pc = "call"

(* N is set in the panel and the operator run from its button. *)
InvokeDistribute ==
    /\ mode = "cubes"
    /\ calls < MaxCalls
    /\ \E n \in CubeCounts :
          /\ cube_count' = n
          /\ \E out \in {distribute_invoke(scene_objs, n, grid_spacing, use_collection)} :
                /\ dist_result' = out.result
                /\ scene_objs' = out.objs
    /\ dist_entry' = "invoke"
    /\ calls' = calls + 1
    /\ UNCHANGED <<grid_spacing, use_collection, matchVars, findVars, mergeVars,
                   treeVars, epsilon, mode, pc>>

(* N is set and the operator's execute run, as a script or a redo does. *)
ExecuteDistribute ==
    /\ mode = "cubes"
    /\ calls < MaxCalls
    /\ \E n \in CubeCounts :
          /\ cube_count' = n
          /\ \E out \in {distribute_execute(scene_objs, n, grid_spacing, use_collection)} :
                /\ dist_result' = out.result
                /\ scene_objs' = out.objs
    /\ dist_entry' = "execute"
    /\ calls' = calls + 1
    /\ UNCHANGED <<grid_spacing, use_collection, matchVars, findVars, mergeVars,
                   treeVars, epsilon, mode, pc>>

CubesNext == InvokeDistribute \/ ExecuteDistribute

SpecCubes == CubesInit /\ [][CubesNext]_vars

(* ----------------------------- binary tree ----------------------------- *)
(* A str is the sequence of its characters.  The heap is the sequence of
   the BinaryNode objects made so far; a reference is an index into it,
   0 is None. *)
InvalidPathError == "InvalidPathError"
NodeNotFoundError == "NodeNotFoundError"

(* str.upper, on the characters of the paths tried *)
UpperChar(c) ==
    IF c = "l" THEN "L" ELSE IF c = "r" THEN "R" ELSE IF c = "x" THEN "X" ELSE c

upper(str) == [k \in 1..Len(str) |-> UpperChar(str[k])]

(* str.strip: the blanks at both ends go. *)
RECURSIVE strip(_)
strip(str) ==
    IF str = <<>> THEN str
    ELSE IF str[1] = " " THEN strip(SubSeq(str, 2, Len(str)))
    ELSE IF str[Len(str)] = " " THEN strip(SubSeq(str, 1, Len(str) - 1))
    ELSE str

(* binary_tree.py 28-36: TRUE when the path passes, FALSE when
   InvalidPathError is raised. *)
_validate_path(path) ==
    LET p == upper(strip(path))
    IN  ~(p # <<>> /\ ~(\A k \in 1..Len(p) : p[k] \in {"L", "R"}))

(* binary_tree.py 47-60: the steps of the path from step k. *)
RECURSIVE FollowLoop(_, _, _, _)
FollowLoop(h, node, p, k) ==
    IF k > Len(p) THEN [raised |-> "", node |-> node]
    ELSE IF p[k] = "L"
    THEN IF h[node].left = 0 THEN [raised |-> NodeNotFoundError, node |-> 0]
         ELSE FollowLoop(h, h[node].left, p, k + 1)
    ELSE IF h[node].right = 0 THEN [raised |-> NodeNotFoundError, node |-> 0]
         ELSE FollowLoop(h, h[node].right, p, k + 1)

(* binary_tree.py 39-60 *)
_follow_path(h, root, path) ==
    IF ~_validate_path(path) THEN [raised |-> InvalidPathError, node |-> 0]
    ELSE FollowLoop(h, root, upper(strip(path)), 1)

BinaryNode(value) == [value |-> value, left |-> 0, right |-> 0]

Raise(exc, h, root) == [raised |-> exc, heap |-> h, root |-> root, deleted |-> 0]

(* Mutant of the attachment: the side is not looked at before it is set. *)
AttachChild_Overwrite(h, root, parent, value, side) ==
    LET new_node == Len(h) + 1
    IN  IF side = "L"
        THEN [raised |-> "", root |-> root, deleted |-> 0,
              heap |-> [Append(h, BinaryNode(value)) EXCEPT ![parent].left = new_node]]
        ELSE [raised |-> "", root |-> root, deleted |-> 0,
              heap |-> [Append(h, BinaryNode(value)) EXCEPT ![parent].right = new_node]]

(* Mutant of the attachment: the root is hung on the side, not a new node. *)
AttachChild_Cycle(h, root, parent, value, side) ==
    IF side = "L"
    THEN IF h[parent].left # 0 THEN Raise(InvalidPathError, h, root)
         ELSE [raised |-> "", root |-> root, deleted |-> 0,
               heap |-> [Append(h, BinaryNode(value)) EXCEPT ![parent].left = root]]
    ELSE IF h[parent].right # 0 THEN Raise(InvalidPathError, h, root)
         ELSE [raised |-> "", root |-> root, deleted |-> 0,
               heap |-> [Append(h, BinaryNode(value)) EXCEPT ![parent].right = root]]

(* binary_tree.py 92-125: the new node hung on the side of the parent, or
   InvalidPathError when the side is taken. *)
AttachChild(h, root, parent, value, side) ==
    LET new_node == Len(h) + 1
    IN  IF side = "L"
        THEN IF h[parent].left # 0 THEN Raise(InvalidPathError, h, root)
             ELSE [raised |-> "", root |-> root, deleted |-> 0,
                   heap |-> [Append(h, BinaryNode(value)) EXCEPT ![parent].left = new_node]]
        ELSE IF h[parent].right # 0 THEN Raise(InvalidPathError, h, root)
             ELSE [raised |-> "", root |-> root, deleted |-> 0,
                   heap |-> [Append(h, BinaryNode(value)) EXCEPT ![parent].right = new_node]]

(* binary_tree.py 70-126; root is what the caller holds afterwards: the
   value returned, or the old root when the call raised. *)
add_node_by_path(h, root, path, value, side0) ==
    LET side == upper(side0)
    IN  IF side \notin {<<"L">>, <<"R">>} THEN Raise(InvalidPathError, h, root)
        ELSE IF root = 0
        THEN IF path # <<>> THEN Raise(NodeNotFoundError, h, root)
             ELSE [raised |-> "", heap |-> Append(h, BinaryNode(value)),
                   root |-> Len(h) + 1, deleted |-> 0]
        ELSE IF path = <<>> THEN AttachChild(h, root, root, value, side[1])
        ELSE LET parent == _follow_path(h, root, path)
             IN  IF parent.raised # "" THEN Raise(parent.raised, h, root)
                 ELSE AttachChild(h, root, parent.node, value, side[1])

(* binary_tree.py 129-163: the parent is followed along path[:-1]; the last
   character, upper-cased, picks the left child when it is L and the right
   child when it is anything else. *)
delete_node(h, root, path) ==
    IF root = 0 THEN Raise(NodeNotFoundError, h, root)
    ELSE IF path = <<>> THEN [raised |-> "", heap |-> h, root |-> 0, deleted |-> root]
    ELSE LET parent_path == SubSeq(path, 1, Len(path) - 1)
             step == UpperChar(path[Len(path)])
             parent == _follow_path(h, root, parent_path)
         IN  IF parent.raised # "" THEN Raise(parent.raised, h, root)
             ELSE IF step = "L"
             THEN IF h[parent.node].left = 0 THEN Raise(NodeNotFoundError, h, root)
                  ELSE [raised |-> "", root |-> root, deleted |-> h[parent.node].left,
                        heap |-> [h EXCEPT ![parent.node].left = 0]]
             ELSE IF h[parent.node].right = 0 THEN Raise(NodeNotFoundError, h, root)
                  ELSE [raised |-> "", root |-> root, deleted |-> h[parent.node].right,
                        heap |-> [h EXCEPT ![parent.node].right = 0]]

(* binary_tree.py 178-185 *)
edit_node_value(h, root, path, value) ==
    IF root = 0 THEN Raise(NodeNotFoundError, h, root)
    ELSE LET node == _follow_path(h, root, path)
         IN  IF node.raised # "" THEN Raise(node.raised, h, root)
             ELSE [raised |-> "", root |-> root, deleted |-> 0,
                   heap |-> [h EXCEPT ![node.node].value = value]]

(* binary_tree.py 187-195: the node at the path, None when there is none. *)
get_node(h, root, path) ==
    IF root = 0 THEN 0
    ELSE LET found == _follow_path(h, root, path)
         IN  IF found.raised # "" THEN 0 ELSE found.node

(* The values given to nodes. *)
Values == {1, 2}

(* ------------------------- model: validation --------------------------- *)

(* exceptions.py 32-35 *)
ValidationError == "ValidationError"

(* Mutant of the children: the right child is left out. *)
_get_children_LeftOnly(h, node) ==
    IF h[node].left # 0 THEN <<h[node].left>> ELSE <<>>

(* validation.py 19-27: the children of a binary node that are there, left
   before right. *)
_get_children(h, node) ==
    (IF h[node].left # 0 THEN <<h[node].left>> ELSE <<>>)
        \o (IF h[node].right # 0 THEN <<h[node].right>> ELSE <<>>)

(* validation.py 43-55: the depth-first check. path_ids holds the nodes of
   the calls that are open, st the visited set, the exception raised and
   the number of calls of _check made so far. *)
RECURSIVE _check(_, _, _, _)
RECURSIVE CheckLoop(_, _, _, _, _)
_check(h, node, path_ids, st) ==
    LET entered == [st EXCEPT !.calls = @ + 1]
    IN  IF node \in path_ids THEN [entered EXCEPT !.raised = ValidationError]
        ELSE IF node \in st.visited THEN entered
        ELSE CheckLoop(h, _get_children(h, node), 1, path_ids \cup {node},
                       [entered EXCEPT !.visited = @ \cup {node}])

(* validation.py 52-53: the loop over the children; an exception ends it. *)
CheckLoop(h, children, k, path_ids, st) ==
    IF k > Len(children) \/ st.raised # "" THEN st
    ELSE CheckLoop(h, children, k + 1, path_ids, _check(h, children[k], path_ids, st))

(* validation.py 33-58 *)
validate_no_cycles(h, root) ==
    IF root = 0 THEN [raised |-> "", ret |-> TRUE, calls |-> 0, visited |-> {}]
    ELSE LET st == _check(h, root, {}, [raised |-> "", visited |-> {}, calls |-> 0])
         IN  [raised |-> st.raised, ret |-> st.raised = "", calls |-> st.calls,
              visited |-> st.visited]

(* validation.py 61-67 *)
validate_tree(h, root) == validate_no_cycles(h, root)

(* ---------------------- specification: validation ---------------------- *)

(* The number of links of a node graph. *)
EdgeCount(h) ==
    Cardinality({k \in 1..Len(h) : h[k].left # 0})
        + Cardinality({k \in 1..Len(h) : h[k].right # 0})

(* The node graphs a client can link together from at most MaxGraphNodes
   BinaryNode objects with at most MaxEdges links: any left and right may
   point at any node, the node itself included. *)
Graphs ==
    UNION {{h \in [1..n -> [value : {1}, left : 0..n, right : 0..n]] :
                EdgeCount(h) <= MaxEdges} : n \in 1..MaxGraphNodes}

ValidateInit ==
    /\ mode = "validate"
    /\ \/ heap = <<>> /\ tree_root = 0
       \/ heap \in Graphs /\ tree_root \in {0, 1}
    /\ tree_op = ""
    /\ raised = ""
    /\ TreeAuxIdle
    /\ epsilon = FACE_EPSILON
    /\ MatchIdle
    /\ FindIdle
    /\ MergeIdle
    /\ CubesIdle
    /\ pc = "call"

(* validate_tree(root) *)
CallValidate ==
    /\ mode = "validate"
    /\ pc = "call"
    /\ valid' = validate_tree(heap, tree_root)
    /\ raised' = valid'.raised
    /\ tree_op' = "validate"
    /\ pc' = "done"
    /\ UNCHANGED <<matchVars, findVars, mergeVars, cubeVars, heap, tree_root, order,
                   yaml_str, loaded, epsilon, mode>>

ValidateNext == CallValidate

SpecValidate == ValidateInit /\ [][ValidateNext]_vars

(* ------------------------- model: traversal ---------------------------- *)

(* node.py 39-57: a GeneralNode, its children a list of nodes. *)
GeneralNode(value, children) == [value |-> value, children |-> children]

(* traversal.py 13-15: a node with the attributes left and right. *)
_is_binary(node) == "left" \in DOMAIN node

(* traversal.py 53-68 *)
RECURSIVE preorder(_, _)
RECURSIVE PreorderLoop(_, _, _)
preorder(h, root) ==
    IF root = 0 THEN <<>>
    ELSE <<h[root].value>>
            \o (IF _is_binary(h[root])
                THEN preorder(h, h[root].left) \o preorder(h, h[root].right)
                ELSE PreorderLoop(h, h[root].children, 1))

(* traversal.py 67-68 *)
PreorderLoop(h, children, k) ==
    IF k > Len(children) THEN <<>>
    ELSE preorder(h, children[k]) \o PreorderLoop(h, children, k + 1)

(* traversal.py 29-51: for a general node the first half of the children,
   the node, the other children. *)
RECURSIVE inorder(_, _)
RECURSIVE InorderLoop(_, _, _, _)
inorder(h, root) ==
    IF root = 0 THEN <<>>
    ELSE IF _is_binary(h[root])
    THEN inorder(h, h[root].left) \o <<h[root].value>> \o inorder(h, h[root].right)
    ELSE LET n == Len(h[root].children)
             mid == n \div 2
         IN  InorderLoop(h, h[root].children, 1, mid) \o <<h[root].value>>
                 \o InorderLoop(h, h[root].children, mid + 1, n)

(* traversal.py 45-46 and 48-49: the children k..last, one after another. *)
InorderLoop(h, children, k, last) ==
    IF k > last THEN <<>>
    ELSE inorder(h, children[k]) \o InorderLoop(h, children, k + 1, last)

(* traversal.py 70-85 *)
RECURSIVE postorder(_, _)
RECURSIVE PostorderLoop(_, _, _)
postorder(h, root) ==
    IF root = 0 THEN <<>>
    ELSE (IF _is_binary(h[root])
          THEN postorder(h, h[root].left) \o postorder(h, h[root].right)
          ELSE PostorderLoop(h, h[root].children, 1))
            \o <<h[root].value>>

(* traversal.py 83-84 *)
PostorderLoop(h, children, k) ==
    IF k > Len(children) THEN <<>>
    ELSE postorder(h, children[k]) \o PostorderLoop(h, children, k + 1)

(* Mutant of the queue loop: the node taken is the last of the queue. *)
RECURSIVE LevelLoop_Stack(_, _, _)
LevelLoop_Stack(h, q, out) ==
    IF q = <<>> THEN out
    ELSE LET node == q[Len(q)]
             rest == SubSeq(q, 1, Len(q) - 1)
         IN  LevelLoop_Stack(h,
                 IF _is_binary(h[node])
                 THEN rest \o (IF h[node].left # 0 THEN <<h[node].left>> ELSE <<>>)
                          \o (IF h[node].right # 0 THEN <<h[node].right>> ELSE <<>>)
                 ELSE rest \o h[node].children,
                 Append(out, h[node].value))

(* traversal.py 95-105: the loop over the queue; the node at the head is
   taken, its value yielded and its children put at the end. *)
RECURSIVE LevelLoop(_, _, _)
LevelLoop(h, q, out) ==
    IF q = <<>> THEN out
    ELSE LET node == Head(q)
         IN  LevelLoop(h,
                 IF _is_binary(h[node])
                 THEN Tail(q) \o (IF h[node].left # 0 THEN <<h[node].left>> ELSE <<>>)
                             \o (IF h[node].right # 0 THEN <<h[node].right>> ELSE <<>>)
                 ELSE Tail(q) \o h[node].children,
                 Append(out, h[node].value))

(* traversal.py 87-105 *)
level_order(h, root) ==
    IF root = 0 THEN <<>> ELSE LevelLoop(h, <<root>>, <<>>)

(* ---------------------- specification: traversal ----------------------- *)

(* The ways of hanging the nodes 2..n under nodes made before them. *)
ParentMaps(n) == {parent \in [2..n -> 1..n] : \A k \in 2..n : parent[k] < k}

(* The child of the node on the side under the parent map, 0 for none. *)
ChildAt(n, parent, side, node, s) ==
    LET there == {k \in 2..n : parent[k] = node /\ side[k] = s}
    IN  IF there = {} THEN 0 ELSE CHOOSE k \in there : TRUE

(* The binary trees of n nodes: BinaryNode objects, each but the first the
   left or right child of one made before it, no side taken twice. *)
BinaryTrees(n) ==
    {[node \in 1..n |-> [value |-> value[node],
                         left |-> ChildAt(n, parent, side, node, "left"),
                         right |-> ChildAt(n, parent, side, node, "right")]] :
        <<parent, side, value>> \in
            {t \in ParentMaps(n) \X [2..n -> {"left", "right"}] \X [1..n -> Values] :
                \A j, k \in 2..n :
                    (j # k /\ t[1][j] = t[1][k]) => t[2][j] # t[2][k]}}

(* The nodes of the list whose parent is the node, in the order of the
   list. *)
RECURSIVE ChildrenIn(_, _, _, _)
ChildrenIn(list, parent, node, k) ==
    IF k > Len(list) THEN <<>>
    ELSE (IF parent[list[k]] = node THEN <<list[k]>> ELSE <<>>)
            \o ChildrenIn(list, parent, node, k + 1)

(* The lists of the nodes 2..n in every order. *)
Orders(n) ==
    {list \in [1..(n - 1) -> 2..n] : \A j, k \in 1..(n - 1) : j # k => list[j] # list[k]}

(* The general trees of n nodes: GeneralNode objects, each but the first in
   the children of one made before it, the children in any order. *)
GeneralTrees(n) ==
    {[node \in 1..n |-> GeneralNode(value[node], ChildrenIn(list, parent, node, 1))] :
        <<parent, list, value>> \in ParentMaps(n) \X Orders(n) \X [1..n -> Values]}

TraverseInit ==
    /\ mode = "traverse"
    /\ \/ heap = <<>> /\ tree_root = 0
       \/ \E n \in 1..MaxTreeNodes :
              heap \in BinaryTrees(n) \cup GeneralTrees(n) /\ tree_root = 1
    /\ tree_op = ""
    /\ raised = ""
    /\ TreeAuxIdle
    /\ epsilon = FACE_EPSILON
    /\ MatchIdle
    /\ FindIdle
    /\ MergeIdle
    /\ CubesIdle
    /\ pc = "call"

traverseFrame == <<matchVars, findVars, mergeVars, cubeVars, heap, tree_root, raised,
                   valid, yaml_str, loaded, epsilon, mode>>

(* list(TraversalMixin.preorder(root)) *)
CallPreorder ==
    /\ mode = "traverse" /\ pc = "call"
    /\ order' = preorder(heap, tree_root)
    /\ tree_op' = "preorder"
    /\ pc' = "done"
    /\ UNCHANGED traverseFrame

(* list(TraversalMixin.inorder(root)) *)
CallInorder ==
    /\ mode = "traverse" /\ pc = "call"
    /\ order' = inorder(heap, tree_root)
    /\ tree_op' = "inorder"
    /\ pc' = "done"
    /\ UNCHANGED traverseFrame

(* list(TraversalMixin.postorder(root)) *)
CallPostorder ==
    /\ mode = "traverse" /\ pc = "call"
    /\ order' = postorder(heap, tree_root)
    /\ tree_op' = "postorder"
    /\ pc' = "done"
    /\ UNCHANGED traverseFrame

(* list(TraversalMixin.level_order(root)) *)
CallLevelOrder ==
    /\ mode = "traverse" /\ pc = "call"
    /\ order' = level_order(heap, tree_root)
    /\ tree_op' = "level_order"
    /\ pc' = "done"
    /\ UNCHANGED traverseFrame

TraverseNext == CallPreorder \/ CallInorder \/ CallPostorder \/ CallLevelOrder

SpecTraverse == TraverseInit /\ [][TraverseNext]_vars

(* ---------------------------- model: YAML ------------------------------ *)

(* The Python values a node carries: None, an int, a str, a list or a tuple
   of ints. t is the type, n the number, s the text, items the elements. *)
PyNone == [t |-> "NoneType", n |-> 0, s |-> "", items |-> <<>>]
PyInt(n) == [t |-> "int", n |-> n, s |-> "", items |-> <<>>]
PyStr(s) == [t |-> "str", n |-> 0, s |-> s, items |-> <<>>]
PyList(items) == [t |-> "list", n |-> 0, s |-> "", items |-> items]
PyTuple(items) == [t |-> "tuple", n |-> 0, s |-> "", items |-> items]

(* exceptions.py 26-29 *)
InvalidYAMLError == [t |-> "InvalidYAMLError", n |-> 0, s |-> "", items |-> <<>>]

IsPyValue(x) == "t" \in DOMAIN x
IsNone(x) == IsPyValue(x) /\ x.t = "NoneType"
IsRaised(x) == IsPyValue(x) /\ x.t = "InvalidYAMLError"

(* node.py 17-36: a BinaryNode with the optional fields of a block. *)
CfdNode(value, left, right, block_dimensions, block_index) ==
    [value |-> value, left |-> left, right |-> right,
     block_dimensions |-> block_dimensions, block_index |-> block_index,
     adjacency |-> PyNone]

(* yaml_handler.py 91-104: the dict of a node; a record stands for the dict,
   its fields for the keys. *)
RECURSIVE _binary_node_to_yaml(_, _)
_binary_node_to_yaml(h, node) ==
    LET keys == {"value"}
                \cup (IF h[node].left # 0 THEN {"left"} ELSE {})
                \cup (IF h[node].right # 0 THEN {"right"} ELSE {})
                \cup (IF ~IsNone(h[node].block_dimensions) THEN {"block_dimensions"} ELSE {})
                \cup (IF ~IsNone(h[node].block_index) THEN {"block_index"} ELSE {})
                \cup (IF ~IsNone(h[node].adjacency) THEN {"adjacency"} ELSE {})
    IN  [k \in keys |->
            CASE k = "value" -> h[node].value
              [] k = "left" -> _binary_node_to_yaml(h, h[node].left)
              [] k = "right" -> _binary_node_to_yaml(h, h[node].right)
              [] k = "block_dimensions" -> PyList(h[node].block_dimensions.items)
              [] k = "block_index" -> h[node].block_index
              [] k = "adjacency" -> h[node].adjacency]

(* The text of an int of one digit, and back. *)
IntText(n) == <<"0", "1", "2", "3", "4", "5", "6", "7", "8", "9">>[n + 1]
IsIntText(text) == \E n \in 0..9 : IntText(n) = text
TextInt(text) == CHOOSE n \in 0..9 : IntText(n) = text

(* The type a plain scalar of the text is read as. *)
Resolve(text) ==
    IF IsIntText(text) THEN "int"
    ELSE IF text \in {"null", "Null", "NULL", "~", ""} THEN "NoneType"
    ELSE "str"

(* The parts of a YAML document: a scalar with its text and quoting, a
   sequence with the tag written before it ("" for none), a mapping. *)
YScalar(text, style) ==
    [kind |-> "scalar", tag |-> "", text |-> text, style |-> style,
     items |-> <<>>, entries |-> <<>>]
YSequence(tag, items) ==
    [kind |-> "sequence", tag |-> tag, text |-> "", style |-> "",
     items |-> items, entries |-> <<>>]
YMapping(entries) ==
    [kind |-> "mapping", tag |-> "", text |-> "", style |-> "",
     items |-> <<>>, entries |-> entries]

(* yaml_handler.py 178, yaml.dump(data, default_flow_style=False,
   allow_unicode=True): None as null, an int as its digits, a str plain or,
   where the plain text would be read as another type, in quotes, a list as
   a sequence, a tuple as a sequence tagged !!python/tuple, a dict as a
   mapping. *)
RECURSIVE yaml_dump(_)
yaml_dump(data) ==
    IF IsPyValue(data)
    THEN CASE data.t = "NoneType" -> YScalar("null", "")
           [] data.t = "int" -> YScalar(IntText(data.n), "")
           [] data.t = "str" ->
                YScalar(data.s, IF Resolve(data.s) = "str" THEN "" ELSE "'")
           [] data.t = "list" ->
                YSequence("", [i \in 1..Len(data.items) |->
                                  YScalar(IntText(data.items[i]), "")])
           [] data.t = "tuple" ->
                YSequence("!!python/tuple", [i \in 1..Len(data.items) |->
                                  YScalar(IntText(data.items[i]), "")])
    ELSE YMapping([k \in DOMAIN data |-> yaml_dump(data[k])])

(* The document has a tag the safe loader has no constructor for. *)
RECURSIVE HasUnsafeTag(_)
HasUnsafeTag(doc) ==
    CASE doc.kind = "scalar" -> FALSE
      [] doc.kind = "sequence" -> doc.tag # ""
      [] doc.kind = "mapping" ->
            \E k \in DOMAIN doc.entries : HasUnsafeTag(doc.entries[k])

(* The value the safe loader makes of a document without unsafe tag. *)
RECURSIVE construct(_)
construct(doc) ==
    CASE doc.kind = "scalar" ->
            IF doc.style # "" THEN PyStr(doc.text)
            ELSE IF Resolve(doc.text) = "int" THEN PyInt(TextInt(doc.text))
            ELSE IF Resolve(doc.text) = "NoneType" THEN PyNone
            ELSE PyStr(doc.text)
      [] doc.kind = "sequence" ->
            PyList([i \in 1..Len(doc.items) |-> construct(doc.items[i]).n])
      [] doc.kind = "mapping" ->
            [k \in DOMAIN doc.entries |-> construct(doc.entries[k])]

(* yaml_handler.py 139-142, yaml.safe_load(yaml_str): a YAMLError for a tag
   without constructor, else the value. *)
safe_load(doc) ==
    IF HasUnsafeTag(doc) THEN [raised |-> "YAMLError", data |-> PyNone]
    ELSE [raised |-> "", data |-> construct(doc)]

(* dict.get(key), None for a key that is not there. *)
DictGet(data, key) == IF key \in DOMAIN data THEN data[key] ELSE PyNone

(* yaml_handler.py 18-37: the optional fields of a node dict. adjacency is
   never set in the runs of the model. *)
_parse_optional_cfd(data) ==
    LET dims == DictGet(data, "block_dimensions")
        idx == DictGet(data, "block_index")
    IN  [block_dimensions |->
            IF IsPyValue(dims) /\ dims.t \in {"list", "tuple"} THEN PyTuple(dims.items)
            ELSE PyNone,
         block_index |->
            IF IsPyValue(idx) /\ idx.t = "int" THEN idx ELSE PyNone]

(* yaml_handler.py 40-60: the node of a dict, None for None, a leaf for a
   scalar; the children are nodes held in the fields left and right. *)
RECURSIVE _yaml_to_binary_node(_)
_yaml_to_binary_node(data) ==
    IF IsNone(data) THEN PyNone
    ELSE IF ~IsPyValue(data)
    THEN IF "value" \notin DOMAIN data THEN InvalidYAMLError
         ELSE LET left == _yaml_to_binary_node(DictGet(data, "left"))
                  right == _yaml_to_binary_node(DictGet(data, "right"))
                  cfd == _parse_optional_cfd(data)
              IN  IF IsRaised(left) \/ IsRaised(right) THEN InvalidYAMLError
                  ELSE CfdNode(data["value"], left, right,
                               cfd.block_dimensions, cfd.block_index)
    ELSE CfdNode(data, PyNone, PyNone, PyNone, PyNone)

(* yaml_handler.py 152-178, with the binary config *)
tree_to_yaml(h, root) ==
    IF root = 0 THEN YScalar("null", "")
    ELSE yaml_dump(_binary_node_to_yaml(h, root))

(* yaml_handler.py 121-149, with the binary config: the tree, or the
   exception raised. *)
yaml_to_tree(doc) ==
    LET read == safe_load(doc)
    IN  IF read.raised # "" THEN InvalidYAMLError
        ELSE _yaml_to_binary_node(read.data)

(* ------------------------ specification: YAML -------------------------- *)

(* The values, block dimensions and block indices of the nodes of the runs:
   an int, a str that reads as an int, None and a tuple; no dimensions, a
   tuple and a list of them; no index and an index. *)
YamlValues == {PyInt(1), PyStr("1"), PyNone, PyTuple(<<1, 2>>)}
YamlDims == {PyNone, PyTuple(<<1, 2>>), PyList(<<1, 2>>)}
YamlIndices == {PyNone, PyInt(0)}

(* The binary trees of n nodes with the optional fields. *)
CfdTrees(n) ==
    {[node \in 1..n |-> CfdNode(value[node], shape[node].left, shape[node].right,
                                dims[node], idx[node])] :
        <<shape, value, dims, idx>> \in
            {tree \in BinaryTrees(n) : \A k \in 1..n : tree[k].value = 1}
                \X [1..n -> YamlValues] \X [1..n -> YamlDims] \X [1..n -> YamlIndices]}

YamlInit ==
    /\ mode = "yaml"
    /\ \/ heap = <<>> /\ tree_root = 0
       \/ \E n \in 1..MaxYamlNodes : heap \in CfdTrees(n) /\ tree_root = 1
    /\ tree_op = ""
    /\ raised = ""
    /\ TreeAuxIdle
    /\ epsilon = FACE_EPSILON
    /\ MatchIdle
    /\ FindIdle
    /\ MergeIdle
    /\ CubesIdle
    /\ pc = "call"

(* yaml_str = tree_to_yaml(t, config) *)
CallTreeToYaml ==
    /\ mode = "yaml" /\ pc = "call"
    /\ yaml_str' = tree_to_yaml(heap, tree_root)
    /\ tree_op' = "tree_to_yaml"
    /\ pc' = "dumped"
    /\ UNCHANGED <<matchVars, findVars, mergeVars, cubeVars, heap, tree_root, raised,
                   valid, order, loaded, epsilon, mode>>

(* yaml_to_tree(yaml_str, config) *)
CallYamlToTree ==
    /\ mode = "yaml" /\ pc = "dumped"
    /\ \E out \in {yaml_to_tree(yaml_str)} :
          /\ loaded' = out
          /\ raised' = IF IsRaised(out) THEN "InvalidYAMLError" ELSE ""
    /\ tree_op' = "yaml_to_tree"
    /\ pc' = "done"
    /\ UNCHANGED <<matchVars, findVars, mergeVars, cubeVars, heap, tree_root,
                   valid, order, yaml_str, epsilon, mode>>

YamlNext == CallTreeToYaml \/ CallYamlToTree

SpecYaml == YamlInit /\ [][YamlNext]_vars

(* --------------------- specification: binary tree ---------------------- *)
PathChars == {"L", "R", "l", "X", " "}
Paths == UNION {[1..n -> PathChars] : n \in 0..MaxPath}
Sides == {<<"L">>, <<"r">>, <<"X">>}

(* binary_tree.py 13-25, create_binary_tree: None for None, else a root. *)
TreeInit ==
    /\ mode = "tree"
    /\ \/ heap = <<>> /\ tree_root = 0
       \/ \E v \in Values : heap = <<BinaryNode(v)>> /\ tree_root = 1
    /\ tree_op = ""
    /\ raised = ""
    /\ TreeAuxIdle
    /\ epsilon = FACE_EPSILON
    /\ MatchIdle
    /\ FindIdle
    /\ MergeIdle
    /\ CubesIdle
    /\ pc = "call"

(* root = add_node_by_path(root, path, value, side); the run makes at most
   MaxNodes nodes. *)
CallAdd ==
    /\ mode = "tree"
    /\ \E path \in Paths, value \in Values, side \in Sides :
          \E out \in {add_node_by_path(heap, tree_root, path, value, side)} :
                /\ Len(out.heap) <= MaxNodes
                /\ heap' = out.heap
                /\ tree_root' = out.root
                /\ raised' = out.raised
    /\ tree_op' = "add"
    /\ UNCHANGED <<matchVars, findVars, mergeVars, cubeVars, treeAuxVars, epsilon, mode, pc>>

(* root, deleted = delete_node(root, path) *)
CallDelete ==
    /\ mode = "tree"
    /\ \E path \in Paths :
          \E out \in {delete_node(heap, tree_root, path)} :
                /\ heap' = out.heap
                /\ tree_root' = out.root
                /\ raised' = out.raised
    /\ tree_op' = "delete"
    /\ UNCHANGED <<matchVars, findVars, mergeVars, cubeVars, treeAuxVars, epsilon, mode, pc>>

(* root = edit_node_value(root, path, value) *)
CallEdit ==
    /\ mode = "tree"
    /\ \E path \in Paths, value \in Values :
          \E out \in {edit_node_value(heap, tree_root, path, value)} :
                /\ heap' = out.heap
                /\ tree_root' = out.root
                /\ raised' = out.raised
    /\ tree_op' = "edit"
    /\ UNCHANGED <<matchVars, findVars, mergeVars, cubeVars, treeAuxVars, epsilon, mode, pc>>

TreeNext == CallAdd \/ CallDelete \/ CallEdit

SpecTree == TreeInit /\ [][TreeNext]_vars

(* ======================= properties of the matcher ===================== *)
(* Two points are coincident when every coordinate differs by at most eps. *)
Coincident(p, q, eps) == \A c \in 1..3 : Abs(p[c] - q[c]) <= eps

(* f2 read from cyclic offset k lines up with f1, vertex by vertex. *)
AlignedAt(f1, f2, k, eps) ==
    \A i \in 0..(Len(f1) - 1) :
        Coincident(f1[i + 1], f2[((i + k) % Len(f1)) + 1], eps)

MatchesSomeRotation(f1, f2, eps) ==
    /\ Len(f1) = Len(f2)
    /\ \E k \in 0..(Len(f1) - 1) : AlignedAt(f1, f2, k, eps)

Rotate(f, k) == [i \in 1..Len(f) |-> f[((i - 1 + k) % Len(f)) + 1]]

PairwiseApart(f, eps) ==
    \A i, j \in 1..Len(f) : i # j => ~Coincident(f[i], f[j], eps)

MatchDone == mode = "match" /\ pc = "done"

(* C1: mesh_faces_match returns True exactly when the two loops have the
   same number of vertices and some cyclic offset k in 0..n-1 puts every
   vertex of f1 within epsilon, in each of the three axes, of the vertex
   of f2 at (i+k) mod n; in every other case, and whenever the counts
   differ, it returns False. *)
C1_MatchContract ==
    MatchDone => (result <=> MatchesSomeRotation(f1_verts, f2_verts, epsilon))

(* C1 witness: a match of two different three-vertex loops that needs a
   nonzero offset. *)
C1_Witness ==
    /\ MatchDone /\ result
    /\ Len(f1_verts) = 3
    /\ ~AlignedAt(f1_verts, f2_verts, 0, epsilon)

(* C2: a loop of at least one vertex matches each of its cyclic rotations
   for every epsilon >= 0. *)
C2_RotationInvariance ==
    (/\ MatchDone
     /\ epsilon >= 0
     /\ Len(f1_verts) >= 1
     /\ \E k \in 0..(Len(f1_verts) - 1) : f2_verts = Rotate(f1_verts, k))
    => result

(* C2 witness: a triangle matched against a proper rotation of itself. *)
C2_Witness ==
    /\ MatchDone /\ result
    /\ Len(f1_verts) = 3
    /\ f2_verts # f1_verts
    /\ f2_verts = Rotate(f1_verts, 1)

(* C3: the matcher is symmetric: swapping the two faces gives the same
   answer, for every epsilon. *)
C3_Symmetry ==
    MatchDone => (result <=> mesh_faces_match(f2_verts, f1_verts, epsilon))

(* C3 witness: two different loops of drifted vertices that match. *)
C3_Witness ==
    /\ MatchDone /\ result
    /\ Len(f1_verts) >= 3
    /\ \E i \in 1..Len(f1_verts) : f1_verts[i] \notin {f2_verts[j] : j \in 1..Len(f2_verts)}

(* C4: a match at tolerance e1 is a match at every tolerance e2 >= e1. *)
C4_ToleranceMonotone ==
    (MatchDone /\ result) =>
        \A e2 \in epsilon..(MaxEps + 1) : mesh_faces_match(f1_verts, f2_verts, e2)

(* C4 witness: different loops that match at a tolerance below the largest
   one tried. *)
C4_Witness ==
    /\ MatchDone /\ result
    /\ epsilon < MaxEps
    /\ Len(f1_verts) >= 3
    /\ f1_verts # f2_verts

(* C5: the matcher never reports a match that involves a vertex loop of
   fewer than 3 vertices, even when the two loops are coincident. *)
C5_ShortLoopRejected ==
    (MatchDone /\ (Len(f1_verts) < 3 \/ Len(f2_verts) < 3)) => ~result

(* C6: a loop of n >= 3 pairwise non-coincident vertices does not match
   its own reversal: the reversed winding is not tried. *)
C6_NoWindingReversal ==
    (/\ MatchDone
     /\ Len(f1_verts) >= 3
     /\ PairwiseApart(f1_verts, epsilon)
     /\ f2_verts = Reverse(f1_verts))
    => ~result

(* C6 witness: a triangle of vertices two ticks apart, compared with its
   reversal at a tolerance of one tick. *)
C6_Witness ==
    /\ MatchDone /\ ~result
    /\ epsilon = 1
    /\ Len(f1_verts) = 3
    /\ PairwiseApart(f1_verts, epsilon)
    /\ f2_verts = Reverse(f1_verts)

(* ======================= properties of the detector ==================== *)
FindDone == mode = "find" /\ pc = "done"

FaceIndices(obj) == 0..(Len(obj.polygons) - 1)

WorldLoop(obj, i) == get_face_world_verts(obj, obj.polygons[i + 1])

(* The detector's test for faces i of A and j of B: the face matcher on the
   two loops, each put in (x, y, z) order (addon.py 244, 248, 250). *)
DetectorMatch(oa, i, ob, j, eps) ==
    MatchesSomeRotation(sorted(WorldLoop(oa, i)), sorted(WorldLoop(ob, j)), eps)

MatchingB(oa, i, ob, eps) == {j \in FaceIndices(ob) : DetectorMatch(oa, i, ob, j, eps)}

Smallest(S) == CHOOSE m \in S : \A x \in S : m <= x

(* C7: find_common_faces returns, in ascending order of A's face index,
   exactly one pair (i, j) for each face i of A that the detector matches
   with some face of B, j being the smallest index of a matching face of B;
   a face of A without a match contributes no pair and no A index appears
   twice, while one B index may serve several A faces. *)
C7_FirstMatchPerFace ==
    (FindDone /\ obj_a.type = "MESH" /\ obj_b.type = "MESH") =>
        /\ \A k \in 1..Len(common) :
              /\ common[k][1] \in FaceIndices(obj_a)
              /\ MatchingB(obj_a, common[k][1], obj_b, epsilon) # {}
              /\ common[k][2] = Smallest(MatchingB(obj_a, common[k][1], obj_b, epsilon))
        /\ \A k, l \in 1..Len(common) : k < l => common[k][1] < common[l][1]
        /\ \A i \in FaceIndices(obj_a) :
              MatchingB(obj_a, i, obj_b, epsilon) # {}
                  => \E k \in 1..Len(common) : common[k][1] = i

(* C7 witness: two faces of A paired with the same face of B, which is not
   the only face of B that matches. *)
C7_Witness ==
    /\ FindDone
    /\ Len(common) = 2
    /\ common[1][2] = common[2][2]
    /\ Cardinality(MatchingB(obj_a, 0, obj_b, epsilon)) = 2

(* C8: every face of A whose loop is coincident within epsilon, in some
   cyclic rotation, with the loop of a face of B of the same vertex count
   has a pair in the result of find_common_faces. *)
C8_CoincidentDetected ==
    (FindDone /\ obj_a.type = "MESH" /\ obj_b.type = "MESH") =>
        \A i \in FaceIndices(obj_a) :
            (\E j \in FaceIndices(obj_b) :
                MatchesSomeRotation(WorldLoop(obj_a, i), WorldLoop(obj_b, j), epsilon))
            => \E k \in 1..Len(common) : common[k][1] = i

(* =================== properties of the merge executor ================== *)
MergeDone == mode = "merge" /\ pc = "done"

SharesFace(oa, ob) == find_common_faces(oa, ob, FACE_EPSILON) # <<>>

SomePairShares(objs) ==
    \E i, j \in 1..Len(objs) : i < j /\ SharesFace(objs[i], objs[j])

(* C9: merging unit cube A at the origin with unit cube B translated by
   one side in x succeeds and leaves 10 faces: 6 + 6 minus both copies of
   the shared face. *)
C9_TwoCubesTenFaces ==
    (MergeDone /\ objects = <<CubeA, CubeB>>) =>
        (ret /\ joined /\ Len(merged.polygons) = 10)

(* C10: the join, weld and dedup steps run if and only if at least one
   pair (i < j) of the given objects has a nonempty find_common_faces
   result, and a call that ran the contact classifier returns False. *)
C10_CommonFaceGate ==
    MergeDone =>
        /\ joined <=> SomePairShares(objects)
        /\ classified => ~ret

(* C10 witness: a merge that went ahead although the first two objects of
   the list share no face. *)
C10_Witness ==
    /\ MergeDone /\ joined /\ ret
    /\ Len(objects) = 3
    /\ ~SharesFace(objects[1], objects[2])

(* ------------------------- merge: properties, 2 ------------------------ *)
MeshCount == Len(MeshesOf(objects))

(* C11: a merge asked for with fewer than 2 mesh objects is refused at
   once: the function returns False, the operator returns CANCELLED, and
   neither the common-face scan nor the classifier nor the join, weld and
   face removal has run. *)
C11_TooFewRejected ==
    (MergeDone /\ MeshCount < 2) =>
        /\ ~ret
        /\ ~scanned /\ ~classified /\ ~joined
        /\ merged = NoObject
        /\ op_result \in {"", "CANCELLED"}

C11_Witness ==
    MergeDone /\ MeshCount = 1 /\ op_result = "CANCELLED" /\ Len(objects) = 2

(* C12: a call that returns False has left the scene as it was: no object
   joined, none replaced or changed, the select flags and the active
   object as before, so the same call can be made again. *)
C12_FailedMergeTouchesNothing ==
    [][(mode = "merge" /\ pc = "select" /\ pc' = "done" /\ ~ret') =>
          /\ scene' = scene
          /\ selection' = selection
          /\ active' = active
          /\ objects' = objects
          /\ ~joined'
          /\ merged' = NoObject]_vars

C12_Witness ==
    MergeDone /\ ~ret /\ scanned /\ classified /\ Light \in selection

(* ----------------------- classifier: properties ------------------------ *)
ClassifyDone == mode = "classify" /\ pc = "done"

(* The pairs of vertices, one of each object, no further apart than eps. *)
Touching(oa, ob, eps) ==
    LET va == _mesh_vertex_positions(oa)
        vb == _mesh_vertex_positions(ob)
    IN  {p \in (1..Len(va)) \X (1..Len(vb)) :
            eps >= 0 /\ DistSq(va[p[1]], vb[p[2]]) <= eps * eps}

(* C13: the classifier returns one of gap, edge-touch and corner-touch: gap
   when an object has no vertex or no vertex of one is within epsilon of a
   vertex of the other, edge-touch when two or more pairs of vertices are
   within epsilon, corner-touch when exactly one pair is. *)
C13_ClassifierContract ==
    ClassifyDone =>
        LET n == Cardinality(Touching(obj_a, obj_b, epsilon))
        IN  /\ contact \in {"gap", "edge-touch", "corner-touch"}
            /\ (contact = "gap") <=> (n = 0)
            /\ (contact = "edge-touch") <=> (n >= 2)
            /\ (contact = "corner-touch") <=> (n = 1)

C13_Witness ==
    /\ ClassifyDone
    /\ contact = "corner-touch"
    /\ Len(obj_a.vertices) = 2 /\ Len(obj_b.vertices) = 2

(* ------------------------- merge: properties, 3 ------------------------ *)
(* What the classifier says of the pairs of a list, first index below second. *)
PairClasses(objs) ==
    {_classify_merge_failure_reason(objs[p[1]], objs[p[2]], FACE_EPSILON) :
        p \in {q \in (1..Len(objs)) \X (1..Len(objs)) : q[1] < q[2]}}

GapReport == "No common face (gap between meshes)"
EdgeReport == "Touch only at edge; full face contact required"
CornerReport == "Touch only at corner; full face contact required"
FailureReports == {SelectAtLeastTwo, GapReport, EdgeReport, CornerReport}

(* C14: every failure of the operator is reported as one of four different
   messages, each for its own cause: too few meshes, a gap, an edge touch,
   a corner touch; the fallback message is never the one reported. *)
C14_FailuresDistinguished ==
    (MergeDone /\ op_result = "CANCELLED") =>
        LET classes == PairClasses(MeshesOf(objects))
        IN  /\ Cardinality(FailureReports) = 4
            /\ report \in FailureReports
            /\ report # NoCommonFaces
            /\ (report = SelectAtLeastTwo) <=> (MeshCount < 2)
            /\ (report = GapReport) <=> (MeshCount >= 2 /\ classes \subseteq {"gap"})
            /\ (report = EdgeReport) => "edge-touch" \in classes
            /\ (report = CornerReport) => "corner-touch" \in classes

C14_Witness ==
    /\ MergeDone /\ op_result = "CANCELLED"
    /\ report = CornerReport
    /\ Len(objects) = 3

(* The join and the weld the call made, before the faces were removed. *)
WeldedOf(objs) == remove_doubles(JoinObjects(objs), FACE_EPSILON, weld_drops_doubles)

FaceVertexSet(mesh, face) == {mesh.vertices[face[c] + 1] : c \in 1..Len(face)}

(* The faces to keep by the rule of identical vertex sets: a face stays
   when its area reaches the threshold and no face kept before it is on
   the same set of vertices. *)
RECURSIVE KeepFirstOccurrences(_, _, _)
KeepFirstOccurrences(mesh, k, kept) ==
    IF k > Len(mesh.polygons) THEN kept
    ELSE LET f == mesh.polygons[k]
             double == \E n \in 1..Len(kept) :
                          FaceVertexSet(mesh, kept[n]) = FaceVertexSet(mesh, f)
         IN  IF double \/ AreaBelowThreshold(mesh, f)
             THEN KeepFirstOccurrences(mesh, k + 1, kept)
             ELSE KeepFirstOccurrences(mesh, k + 1, Append(kept, f))

(* C15: after the weld a face is removed as a duplicate exactly when a face
   kept before it has the same set of welded vertices, so the first of
   each set stays, no two faces left share a vertex set, and every face
   left has an area of at least 1e-10. *)
C15_DedupByVertexSet ==
    (MergeDone /\ joined) =>
        LET welded == WeldedOf(objects)
        IN  /\ merged.polygons = KeepFirstOccurrences(welded, 1, <<>>)
            /\ \A m, n \in 1..Len(merged.polygons) :
                  m # n => FaceVertexSet(merged, merged.polygons[m])
                              # FaceVertexSet(merged, merged.polygons[n])
            /\ \A m \in 1..Len(merged.polygons) :
                  ~AreaBelowThreshold(merged, merged.polygons[m])

(* C16: a merge that leaves a mesh of no face is never returned as a
   success. *)
C16_NoEmptySuccess ==
    (MergeDone /\ ret) => Len(merged.polygons) > 0

(* C17: after the weld no two vertices of the mesh are within epsilon of
   each other, vertices chained by nearness (A near B, B near C) have all
   become one vertex, and a second weld removes no vertex. *)
C17_WeldClosed ==
    (MergeDone /\ joined) =>
        LET j == JoinObjects(objects)
            w == WeldLoop(j.vertices, 1, <<>>, <<>>, FACE_EPSILON)
            n == Len(j.vertices)
        IN  /\ \A a, b \in 1..Len(merged.vertices) :
                  a # b => ~WithinDist(merged.vertices[a], merged.vertices[b], FACE_EPSILON)
            /\ \A a, b, c \in 1..n :
                  (/\ WithinDist(j.vertices[a], j.vertices[b], FACE_EPSILON)
                   /\ WithinDist(j.vertices[b], j.vertices[c], FACE_EPSILON))
                  => w.map[a] = w.map[c]
            /\ Len(remove_doubles(merged, FACE_EPSILON, weld_drops_doubles).vertices)
                  = Len(merged.vertices)

(* -------------------- cube distribution: properties -------------------- *)
IsCubeObject(obj) == obj.type = "MESH" /\ obj.name.stem = CubeStem

(* A cube of size 1: its bounding box has the side CubeSize on every axis. *)
IsUnitCube(obj) ==
    /\ IsCubeObject(obj)
    /\ Len(obj.verts) = 8
    /\ \A c \in 1..3 : BoundsOf(obj)[2][c] - BoundsOf(obj)[1][c] = CubeSize

(* C18: a run of Distribute Cubes with 1 <= N <= 19 adds exactly N cubes of
   size 1 to the scene; with N < 1 or N >= 20 it returns CANCELLED, from
   invoke and from execute, and the scene is as it was. *)
C18_ExactlyNCubes ==
    [][(mode = "cubes" /\ calls' = calls + 1) =>
          IF 1 <= cube_count' /\ cube_count' <= MAX_N - 1
          THEN /\ dist_result' = "FINISHED"
               /\ Len(scene_objs') = Len(scene_objs) + cube_count'
               /\ SubSeq(scene_objs', 1, Len(scene_objs)) = scene_objs
               /\ \A k \in (Len(scene_objs) + 1)..Len(scene_objs') :
                     IsUnitCube(scene_objs'[k])
               /\ \A k, l \in 1..Len(scene_objs') :
                     k # l => scene_objs'[k].name # scene_objs'[l].name
          ELSE /\ dist_result' = "CANCELLED"
               /\ scene_objs' = scene_objs]_vars

C18_Witness ==
    /\ mode = "cubes" /\ calls = 2
    /\ dist_result = "CANCELLED" /\ dist_entry = "invoke" /\ cube_count = MAX_N
    /\ Len(SelectSeq(scene_objs, IsCubeObject)) = MAX_N - 1

BoxesOverlap(a, b) == \A c \in 1..3 : a[1][c] < b[2][c] /\ b[1][c] < a[2][c]

(* C19: whatever runs of Distribute Cubes were made, no two cubes of the
   scene have overlapping bounding boxes, and no cube overlaps the bounding
   box of a mesh that was there before. *)
C19_NoOverlap ==
    mode = "cubes" =>
        \A k, l \in 1..Len(scene_objs) :
            (/\ k # l
             /\ IsCubeObject(scene_objs[k])
             /\ scene_objs[l].type = "MESH" /\ scene_objs[l].verts # <<>>)
            => ~BoxesOverlap(BoundsOf(scene_objs[k]), BoundsOf(scene_objs[l]))

(* ------------------------ binary tree: properties ---------------------- *)
(* The path has a character that is neither L nor R in either case. *)
HasForeignChar(path) == \E k \in 1..Len(path) : path[k] \notin {"L", "R", "l", "r"}

(* The call left the caller's tree as it was. *)
TreeUntouched(out) == out.heap = heap /\ out.root = tree_root

(* C20: add_node_by_path, delete_node and edit_node_value, called on the
   tree with a path that has a character other than L or R in either case,
   raise InvalidPathError and leave the tree as it was. *)
C20_ForeignCharRejected ==
    mode = "tree" =>
        \A path \in Paths :
            HasForeignChar(path) =>
                /\ \A value \in Values, side \in Sides :
                      LET out == add_node_by_path(heap, tree_root, path, value, side)
                      IN  out.raised = InvalidPathError /\ TreeUntouched(out)
                /\ LET out == delete_node(heap, tree_root, path)
                   IN  out.raised = InvalidPathError /\ TreeUntouched(out)
                /\ \A value \in Values :
                      LET out == edit_node_value(heap, tree_root, path, value)
                      IN  out.raised = InvalidPathError /\ TreeUntouched(out)

(* The paths and sides of L and R in either case. *)
LRPaths == {path \in Paths : ~HasForeignChar(path)}
LRSides == {side \in Sides : upper(side) \in {<<"L">>, <<"R">>}}

ChildOn(h, node, side) ==
    IF upper(side) = <<"L">> THEN h[node].left ELSE h[node].right

(* Node k of the old heap is in the new heap as it was, but for the link
   of the parent on the side. *)
NodeKept(h, new_h, k, parent, side) ==
    /\ new_h[k].value = h[k].value
    /\ (k # parent \/ upper(side) # <<"L">>) => new_h[k].left = h[k].left
    /\ (k # parent \/ upper(side) # <<"R">>) => new_h[k].right = h[k].right

(* C21: add_node_by_path on a node whose side is taken raises
   InvalidPathError and leaves the tree as it was; on a free side the node
   at path + side afterwards is a new node with the given value, and every
   other node is as before. *)
C21_NeverOverwrites ==
    (mode = "tree" /\ tree_root # 0) =>
        \A path \in LRPaths, value \in Values, side \in LRSides :
            LET parent == get_node(heap, tree_root, path)
                out == add_node_by_path(heap, tree_root, path, value, side)
            IN  parent # 0 =>
                    IF ChildOn(heap, parent, side) # 0
                    THEN out.raised = InvalidPathError /\ TreeUntouched(out)
                    ELSE /\ out.raised = ""
                         /\ out.root = tree_root
                         /\ Len(out.heap) = Len(heap) + 1
                         /\ get_node(out.heap, out.root, path \o side) = Len(heap) + 1
                         /\ out.heap[Len(heap) + 1] = BinaryNode(value)
                         /\ \A k \in 1..Len(heap) : NodeKept(heap, out.heap, k, parent, side)

C21_Witness ==
    /\ mode = "tree" /\ tree_op = "add" /\ raised = InvalidPathError
    /\ tree_root # 0 /\ heap[tree_root].left # 0

(* C22: add_node_by_path with a path of L and R whose nodes are not all
   there makes the missing nodes: the call raises nothing and the new
   node is at path + side. *)
C22_CreatesIntermediates ==
    (mode = "tree" /\ tree_root # 0) =>
        \A path \in LRPaths, value \in Values, side \in LRSides :
            LET out == add_node_by_path(heap, tree_root, path, value, side)
                new_node == get_node(out.heap, out.root, path \o side)
            IN  get_node(heap, tree_root, path) = 0 =>
                    /\ out.raised = ""
                    /\ new_node # 0
                    /\ out.heap[new_node].value = value

(* The children of a node that are there. *)
ChildrenOf(h, node) == {h[node].left, h[node].right} \ {0}

(* C23: delete_node with the empty path returns (None, old_root) for a
   root without a child and (child, old_root) for a root with one child;
   with a path to a node that is there it returns (root, deleted_node) and
   get_node(path) is None afterwards; with a path to no node, or on an
   empty tree, it raises NodeNotFoundError. *)
C23_DeleteContract ==
    mode = "tree" =>
        /\ tree_root = 0 =>
              \A path \in LRPaths : delete_node(heap, tree_root, path).raised = NodeNotFoundError
        /\ tree_root # 0 =>
              /\ LET out == delete_node(heap, tree_root, <<>>)
                     children == ChildrenOf(heap, tree_root)
                 IN  /\ out.raised = "" /\ out.deleted = tree_root
                     /\ children = {} => out.root = 0
                     /\ Cardinality(children) = 1 => out.root \in children
              /\ \A path \in LRPaths \ {<<>>} :
                    LET out == delete_node(heap, tree_root, path)
                        node == get_node(heap, tree_root, path)
                    IN  IF node # 0
                        THEN /\ out.raised = ""
                             /\ out.root = tree_root /\ out.deleted = node
                             /\ get_node(out.heap, out.root, path) = 0
                        ELSE out.raised = NodeNotFoundError

(* ----------------------- properties: validation ------------------------ *)

(* The nodes that can be reached from the nodes of S along links. *)
RECURSIVE Reach(_, _)
Reach(h, S) ==
    LET next == S \cup UNION {ChildrenOf(h, k) : k \in S}
    IN  IF next = S THEN S ELSE Reach(h, next)

(* The node can be reached from itself. *)
OnCycle(h, k) == k \in Reach(h, ChildrenOf(h, k))

ParentsOf(h, k) == {p \in 1..Len(h) : k \in ChildrenOf(h, p)}

(* C26: validate_no_cycles ends on every finite node graph, after at most
   one call of _check for the root and one for each link; it raises
   ValidationError exactly when a node that can be reached from the root
   can be reached from itself, and returns True otherwise: for None, for
   every tree and for a graph without cycle in which two parents share a
   subtree. *)
C26_CyclesExactly ==
    (mode = "validate" /\ pc = "done") =>
        /\ valid.calls <= 1 + EdgeCount(heap)
        /\ valid.ret = (valid.raised = "")
        /\ valid.raised \in {"", ValidationError}
        /\ tree_root = 0 => valid.ret
        /\ tree_root # 0 =>
              (valid.raised = ValidationError
                  <=> \E k \in Reach(heap, {tree_root}) : OnCycle(heap, k))

C26_Witness ==
    /\ mode = "validate" /\ pc = "done" /\ valid.ret /\ tree_root # 0
    /\ \E k \in Reach(heap, {tree_root}) :
          Cardinality(ParentsOf(heap, k) \cap Reach(heap, {tree_root})) = 2

(* C30: after any calls of add, delete and edit on a tree of
   create_binary_tree, what can be reached from the root is a binary tree:
   no node can be reached from itself, no node is the child of two parents
   or both children of one, the root is nobody's child, and validate_tree
   returns True. *)
C30_ProperTree ==
    mode = "tree" =>
        LET nodes == Reach(heap, {tree_root} \ {0})
        IN  /\ \A k \in nodes :
                  /\ ~OnCycle(heap, k)
                  /\ Cardinality(ParentsOf(heap, k) \cap nodes) <= 1
                  /\ heap[k].left # 0 => heap[k].left # heap[k].right
            /\ tree_root # 0 => ParentsOf(heap, tree_root) \cap nodes = {}
            /\ validate_tree(heap, tree_root).ret

C30_Witness ==
    /\ mode = "tree" /\ tree_op = "add" /\ raised = ""
    /\ tree_root # 0 /\ ChildrenOf(heap, tree_root) # {}

(* ----------------------- properties: traversal ------------------------- *)

(* The children of a node of either kind, in order: left before right. *)
KidsOf(h, k) ==
    IF _is_binary(h[k]) THEN _get_children(h, k) ELSE h[k].children

(* The children visited before the node and after it by inorder. *)
KidsBefore(h, k) ==
    IF _is_binary(h[k]) THEN {h[k].left} \ {0}
    ELSE {h[k].children[i] : i \in 1..(Len(h[k].children) \div 2)}

KidsAfter(h, k) == Range(KidsOf(h, k)) \ KidsBefore(h, k)

(* The nodes of the subtree of a node, the node included. *)
RECURSIVE Subtree(_, _)
Subtree(h, k) == {k} \cup UNION {Subtree(h, c) : c \in Range(KidsOf(h, k))}

(* The number of links from the root down to the node. *)
RECURSIVE DepthOf(_, _, _)
DepthOf(h, from, k) ==
    IF from = k THEN 0
    ELSE 1 + DepthOf(h, CHOOSE c \in Range(KidsOf(h, from)) : k \in Subtree(h, c), k)

(* a is in the subtree of a child that stands before the child whose
   subtree holds b, in the list of children of some node. *)
LeftOf(h, a, b) ==
    \E c \in 1..Len(h) :
        \E i, j \in 1..Len(KidsOf(h, c)) :
            /\ i < j
            /\ a \in Subtree(h, KidsOf(h, c)[i])
            /\ b \in Subtree(h, KidsOf(h, c)[j])

(* a is yielded before b in the order the traversal defines. *)
YieldedBefore(op, h, root, a, b) ==
    CASE op = "preorder" -> (b \in Subtree(h, a) \ {a}) \/ LeftOf(h, a, b)
      [] op = "postorder" -> (a \in Subtree(h, b) \ {b}) \/ LeftOf(h, a, b)
      [] op = "inorder" ->
            \/ \E c \in KidsBefore(h, b) : a \in Subtree(h, c)
            \/ \E c \in KidsAfter(h, a) : b \in Subtree(h, c)
            \/ (a \notin Subtree(h, b) /\ b \notin Subtree(h, a) /\ LeftOf(h, a, b))
      [] op = "level_order" ->
            \/ DepthOf(h, root, a) < DepthOf(h, root, b)
            \/ (DepthOf(h, root, a) = DepthOf(h, root, b) /\ LeftOf(h, a, b))

(* The lists that hold every node of the tree exactly once. *)
Visits(h) ==
    {list \in [1..Len(h) -> 1..Len(h)] :
        \A j, k \in 1..Len(h) : j # k => list[j] # list[k]}

(* C24: each traversal yields the value of every node exactly once, in its
   order: preorder a node before its subtrees, postorder after them,
   inorder between the left (first half of the children) and the right
   (the other children), level_order by depth; and in each the subtrees of
   a node in the order of its children, left before right. *)
C24_TraversalOrder ==
    (mode = "traverse" /\ pc = "done") =>
        \E list \in Visits(heap) :
            /\ Len(order) = Len(heap)
            /\ \A i \in 1..Len(heap) : order[i] = heap[list[i]].value
            /\ \A i, j \in 1..Len(heap) :
                  i < j => YieldedBefore(tree_op, heap, tree_root, list[i], list[j])

C24_Witness ==
    /\ mode = "traverse" /\ pc = "done" /\ tree_op = "level_order"
    /\ Len(heap) = 3 /\ ~_is_binary(heap[1])
    /\ heap[1].children = <<3, 2>> /\ order = <<1, 2, 1>>

(* -------------------------- properties: YAML --------------------------- *)

(* The tree read back has the shape of the tree under the node, and at
   every node its value, block_index and block_dimensions. *)
RECURSIVE SameTree(_, _, _)
SameTree(h, node, read) ==
    IF node = 0 THEN IsNone(read)
    ELSE /\ ~IsPyValue(read)
         /\ read.value = h[node].value
         /\ read.block_index = h[node].block_index
         /\ read.block_dimensions = h[node].block_dimensions
         /\ SameTree(h, h[node].left, read.left)
         /\ SameTree(h, h[node].right, read.right)

(* C25: yaml_to_tree(tree_to_yaml(t, config), config) with the binary
   config raises nothing and gives a tree of the shape of t with the values,
   block_index and block_dimensions of t at every node. *)
C25_RoundTrip ==
    (mode = "yaml" /\ pc = "done") =>
        raised = "" /\ SameTree(heap, tree_root, loaded)

(* ------------------------- merge: properties, 4 ------------------------ *)

(* C27: the message a failing run of the operator on two or more meshes
   reports is the message of the classification of the meshes of that run,
   and so is the global after it, whatever an earlier call left in the
   global. *)
C27_NoStaleReason ==
    (MergeDone /\ op_result = "CANCELLED" /\ MeshCount >= 2) =>
        /\ report = FailureMessage(ReasonLoopI(MeshesOf(objects), 0))
        /\ last_merge_failure_reason = report
        /\ report \in {GapReport, EdgeReport, CornerReport}

C27_Witness ==
    /\ MergeDone /\ op_result = "CANCELLED" /\ MeshCount >= 2
    /\ reason_before = EdgeReport /\ report = GapReport

(* The pairs (i, j) of a list with i < j, and the order the loops take them
   in. *)
PairsOf(objs) == {p \in (1..Len(objs)) \X (1..Len(objs)) : p[1] < p[2]}
PairBefore(p, q) == p[1] < q[1] \/ (p[1] = q[1] /\ p[2] <= q[2])
ClassOf(objs, p) == _classify_merge_failure_reason(objs[p[1]], objs[p[2]], FACE_EPSILON)

(* C28: after a merge of two or more objects that failed the gate the
   reason is that of the first pair (i, j), i < j, in lexicographic order
   whose classification is not gap, and gap when every pair is gap. *)
C28_FirstPairDecides ==
    (mode = "merge" /\ pc = "done" /\ classified) =>
        LET objs == IF op_result = "" THEN objects ELSE MeshesOf(objects)
            touching == {p \in PairsOf(objs) : ClassOf(objs, p) # "gap"}
        IN  /\ Len(objs) >= 2
            /\ touching = {} => last_merge_failure_reason = GapReport
            /\ touching # {} =>
                  \E p \in touching :
                      /\ \A q \in touching : PairBefore(p, q)
                      /\ last_merge_failure_reason = FailureMessage(ClassOf(objs, p))
            /\ op_result = "CANCELLED" => report = last_merge_failure_reason

C28_Witness ==
    /\ mode = "merge" /\ pc = "done" /\ classified /\ op_result = "CANCELLED"
    /\ report = CornerReport
    /\ ClassOf(MeshesOf(objects), <<1, 2>>) = "corner-touch"
    /\ "edge-touch" \in PairClasses(MeshesOf(objects))

(* ---------------------- detector: properties, 2 ------------------------ *)

(* The two loops hold the same vertices the same number of times. *)
SameMultiset(loop_a, loop_b) ==
    /\ Len(loop_a) = Len(loop_b)
    /\ \A v \in Range(loop_a) \cup Range(loop_b) :
          Cardinality({k \in 1..Len(loop_a) : loop_a[k] = v})
              = Cardinality({k \in 1..Len(loop_b) : loop_b[k] = v})

(* C29: a face of A and a face of B whose world loops hold exactly the same
   vertices, in whatever order and from whatever start, pass the test of
   the detector, and the face of A is in the result, paired with that face
   of B or with one of smaller index. *)
C29_OrderInsensitive ==
    (FindDone /\ obj_a.type = "MESH" /\ obj_b.type = "MESH") =>
        \A i \in FaceIndices(obj_a), j \in FaceIndices(obj_b) :
            SameMultiset(WorldLoop(obj_a, i), WorldLoop(obj_b, j)) =>
                /\ mesh_faces_match(sorted(WorldLoop(obj_a, i)),
                                    sorted(WorldLoop(obj_b, j)), epsilon)
                /\ \E k \in 1..Len(common) :
                      common[k][1] = i /\ common[k][2] <= j

C29_Witness ==
    /\ FindDone /\ obj_a.type = "MESH" /\ obj_b.type = "MESH"
    /\ Len(obj_a.polygons) = 1 /\ Len(obj_b.polygons) = 1
    /\ WorldLoop(obj_a, 0) = Quad /\ WorldLoop(obj_b, 0) = QuadBack
    /\ common = <<<<0, 0>>>>

====
